---- MODULE Spec2Model ----
(***************************************************************************)
(* Model of leaf's conf-format reader, src/leaf/src/config/conf/config.rs: *)
(* from_lines (text -> external Config) and to_internal (external Config   *)
(* -> internal Config).                                                    *)
(*                                                                         *)
(* Conventions.                                                            *)
(*  - Option<T>: None is <<>>, Some(v) is <<v>>.                           *)
(*  - A Rust String held in a struct field is a TLA+ string; format! is    *)
(*    string concatenation (\o).                                           *)
(*  - A text line being parsed is a sequence of tokens whose concatenation *)
(*    is the line; every separator, bracket, '#', '*', whitespace, sign    *)
(*    and digit character is a token of its own.                           *)
(*  - A protobuf settings payload is the record of the message's fields.   *)
(***************************************************************************)
EXTENDS Integers, Sequences, FiniteSets, TLC

VARIABLES lines, parsed, sect_lines, conf, pc, i, log, inbounds, outbounds, rules, result

vars == <<lines, parsed, sect_lines, conf, pc, i, log, inbounds, outbounds, rules, result>>

\* ------------------------------------------------------------------ Option
None == <<>>

Some(v) == <<v>>

is_some(o) == o # None

is_none(o) == o = None

unwrap(o) == o[1]

\* `if let Some(list) = &opt { for x in list ... }`: the elements iterated.
Items(o) == IF is_some(o) THEN unwrap(o) ELSE <<>>

\* ------------------------------------------------------------------ bounds
\* Largest total number of proxies, proxy groups and rules of an external
\* config given directly to to_internal.
MaxEntries == 3

\* Largest number of lines that follow the section header of an input file.
MaxLines == 3

\* Largest number of lines that follow the section header of an input text.
MaxTextLines == 2

\* ------------------------------------------------------------------ structs
TUN_default == [name |-> None, address |-> None, netmask |-> None, gateway |-> None, mtu |-> None]

General_default ==
    [tun |-> None, tun_fd |-> None, loglevel |-> None, dns_server |-> None,
     dns_interface |-> None, always_real_ip |-> None, interface |-> None,
     port |-> None, socks_interface |-> None, socks_port |-> None]

Proxy_default ==
    [tag |-> "", protocol |-> "", interface |-> "0.0.0.0",
     address |-> None, port |-> None,
     encrypt_method |-> Some("chacha20-ietf-poly1305"),
     password |-> None, username |-> None,
     ws |-> Some(FALSE), tls |-> Some(FALSE),
     ws_path |-> None, sni |-> None]

ProxyGroup_default ==
    [tag |-> "", protocol |-> "", actors |-> None,
     health_check |-> Some(TRUE), check_interval |-> Some(300),
     fail_timeout |-> Some(4), failover |-> Some(TRUE),
     delay_base |-> Some(0)]

Rule_default == [type_field |-> "", filter |-> None, target |-> ""]

Config_default == [general |-> None, proxy |-> None, proxy_group |-> None, rule |-> None]

\* 2^16: an unsigned 32-bit value is held as its two 16-bit halves,
\* value = hi * 2^16 + lo.
Half == 65536

\* `x as u32` for an i32 or u16 x: x modulo 2^32.
AsU32(x) == [hi |-> (x \div Half) % Half, lo |-> x % Half]

\* internal::Outbound::new()
Outbound_new == [protocol |-> "", tag |-> "", bind |-> "", settings |-> <<>>]

\* internal::Inbound::new()
Inbound_new == [protocol |-> "", listen |-> "", port |-> AsU32(0), settings |-> <<>>]

\* internal::RoutingRule::new()
RoutingRule_new == [target_tag |-> "", ip_cidrs |-> <<>>, domains |-> <<>>, mmdbs |-> <<>>]

\* ------------------------------------------------------------------ text
\* Whitespace characters (char::is_whitespace, regex \s) used by the inputs.
White == {" ", "\t"}

RECURSIVE LTrim(_)
LTrim(s) == IF s # <<>> /\ Head(s) \in White THEN LTrim(Tail(s)) ELSE s

RECURSIVE RTrim(_)
RTrim(s) == IF s # <<>> /\ s[Len(s)] \in White THEN RTrim(SubSeq(s, 1, Len(s) - 1)) ELSE s

\* str::trim
Trim(s) == RTrim(LTrim(s))

\* Index of the first token c of s at or after position from, 0 when none.
IndexFrom(s, c, from) ==
    LET hits == {k \in from..Len(s) : s[k] = c}
    IN  IF hits = {} THEN 0 ELSE CHOOSE k \in hits : \A h \in hits : k <= h

IndexOf(s, c) == IndexFrom(s, c, 1)

\* str::contains(char)
Contains(s, c) == IndexOf(s, c) # 0

\* str::split(char): one more part than there are separators.
RECURSIVE Split(_, _)
Split(s, c) ==
    LET k == IndexOf(s, c)
    IN  IF k = 0 THEN <<s>>
        ELSE <<SubSeq(s, 1, k - 1)>> \o Split(SubSeq(s, k + 1, Len(s)), c)

\* str::splitn(2, char)
SplitN2(s, c) ==
    LET k == IndexOf(s, c)
    IN  IF k = 0 THEN <<s>> ELSE <<SubSeq(s, 1, k - 1), SubSeq(s, k + 1, Len(s))>>

\* The String made of the tokens (to_string of a &str).
RECURSIVE Join(_)
Join(s) == IF s = <<>> THEN "" ELSE Head(s) \o Join(Tail(s))

Digit == [c \in {"0", "1", "2", "3", "4", "5", "6", "7", "8", "9"} |->
            CASE c = "0" -> 0 [] c = "1" -> 1 [] c = "2" -> 2 [] c = "3" -> 3 [] c = "4" -> 4
              [] c = "5" -> 5 [] c = "6" -> 6 [] c = "7" -> 7 [] c = "8" -> 8 [] c = "9" -> 9]

I32Min == -2147483647 - 1

I32Max == 2147483647

U16Max == 65535

\* Accumulation of the digits ds onto acc, upwards to at most max; None on
\* overflow (checked_mul / checked_add).
RECURSIVE AccUp(_, _, _)
AccUp(ds, acc, max) ==
    IF ds = <<>> THEN Some(acc)
    ELSE LET d == Digit[Head(ds)]
         IN  IF acc > (max - d) \div 10 THEN None ELSE AccUp(Tail(ds), acc * 10 + d, max)

\* Accumulation downwards to at least min (checked_mul / checked_sub).
RECURSIVE AccDown(_, _, _)
AccDown(ds, acc, min) ==
    IF ds = <<>> THEN Some(acc)
    ELSE LET d == Digit[Head(ds)]
         IN  IF acc < (min + d + 9) \div 10 THEN None ELSE AccDown(Tail(ds), acc * 10 - d, min)

AllDigits(ds) == \A k \in 1..Len(ds) : ds[k] \in DOMAIN Digit

\* str::parse::<i32>: optional sign, at least one digit, no overflow.
ParseI32(s) ==
    IF s = <<>> THEN None
    ELSE LET signed == Head(s) \in {"+", "-"}
             ds == IF signed THEN Tail(s) ELSE s
         IN  IF ds = <<>> \/ ~AllDigits(ds) THEN None
             ELSE IF Head(s) = "-" THEN AccDown(ds, 0, I32Min)
             ELSE AccUp(ds, 0, I32Max)

\* str::parse::<u16>: optional '+', at least one digit, no overflow.
ParseU16(s) ==
    IF s = <<>> THEN None
    ELSE LET ds == IF Head(s) = "+" THEN Tail(s) ELSE s
         IN  IF ds = <<>> \/ ~AllDigits(ds) THEN None ELSE AccUp(ds, 0, U16Max)

\* remove_comments: the first match of #[^*]* is removed, that is the first
\* '#' and everything after it up to, not including, the next '*'.
remove_comments(text) ==
    LET h == IndexOf(text, "#")
    IN  IF h = 0 THEN text
        ELSE LET star == IndexFrom(text, "*", h + 1)
             IN  IF star = 0 THEN SubSeq(text, 1, h - 1)
                 ELSE SubSeq(text, 1, h - 1) \o SubSeq(text, star, Len(text))

\* get_section: ^\s*\[\s*([^\]]*)\s*\]\s*$ ; the group is greedy, so it keeps
\* the whitespace that precedes the closing bracket.
get_section(text) ==
    LET t == LTrim(text)
        close == IndexOf(t, "]")
    IN  IF t = <<>> \/ Head(t) # "[" \/ close = 0 THEN None
        ELSE IF Trim(SubSeq(t, close + 1, Len(t))) # <<>> THEN None
        ELSE Some(Join(LTrim(SubSeq(t, 2, close - 1))))

\* get_lines_by_section: the loop over the first n lines; curr_sect and
\* new_lines after it.
RECURSIVE SectionScan(_, _, _)
SectionScan(section, ls, n) ==
    IF n = 0 THEN [curr_sect |-> "", new_lines |-> <<>>]
    ELSE LET before == SectionScan(section, ls, n - 1)
         IN  IF is_none(ls[n]) THEN before
             ELSE LET line == remove_comments(unwrap(ls[n]))
                      sec == get_section(line)
                  IN  IF is_some(sec) THEN [before EXCEPT !.curr_sect = unwrap(sec)]
                      ELSE IF before.curr_sect = section /\ Len(Trim(line)) > 0
                           THEN [before EXCEPT !.new_lines = Append(@, Trim(line))]
                           ELSE before

get_lines_by_section(section, ls) == SectionScan(section, ls, Len(ls)).new_lines

\* get_char_sep_slice: the trimmed non-empty items, None when there is none.
get_char_sep_slice(text, pat) ==
    LET parts == Split(Trim(text), pat)
        NonEmpty(x) == Len(x) > 0
        items == SelectSeq([k \in 1..Len(parts) |-> Trim(parts[k])], NonEmpty)
    IN  IF Len(items) > 0 THEN Some(items) ELSE None

get_string(text) == IF Len(Trim(text)) > 0 THEN Some(Join(Trim(text))) ELSE None

\* get_value::<i32>
get_value_i32(text) == IF Len(Trim(text)) > 0 THEN ParseI32(Trim(text)) ELSE None

\* get_value::<u16>
get_value_u16(text) == IF Len(Trim(text)) > 0 THEN ParseU16(Trim(text)) ELSE None

\* Vec<String> of the items of a list.
Strings(items) == [k \in 1..Len(items) |-> Join(items[k])]

\* ------------------------------------------------------------------ from_lines: General
\* One iteration of the loop over the General lines.
GeneralLineStep(general, line) ==
    LET parts == Split(line, "=")
    IN  IF Len(parts) # 2 THEN general
        ELSE LET k == Join(Trim(parts[1]))
                 v == parts[2]
                 items == get_char_sep_slice(v, ",")
                 list == IF is_some(items) THEN Some(Strings(unwrap(items))) ELSE None
             IN  CASE k = "tun-fd" -> [general EXCEPT !.tun_fd = get_value_i32(v)]
                   [] k = "tun" ->
                        IF is_some(items) /\ Len(unwrap(items)) = 5
                        THEN [general EXCEPT !.tun =
                                Some([name |-> Some(Join(unwrap(items)[1])),
                                      address |-> Some(Join(unwrap(items)[2])),
                                      netmask |-> Some(Join(unwrap(items)[3])),
                                      gateway |-> Some(Join(unwrap(items)[4])),
                                      mtu |-> get_value_i32(unwrap(items)[5])])]
                        ELSE general
                   [] k = "loglevel" -> [general EXCEPT !.loglevel = Some(Join(Trim(v)))]
                   [] k = "dns-server" -> [general EXCEPT !.dns_server = list]
                   [] k = "dns-interface" -> [general EXCEPT !.dns_interface = get_string(v)]
                   [] k = "always-real-ip" -> [general EXCEPT !.always_real_ip = list]
                   [] k = "interface" -> [general EXCEPT !.interface = get_string(v)]
                   [] k = "port" -> [general EXCEPT !.port = get_value_u16(v)]
                   [] k = "socks-interface" -> [general EXCEPT !.socks_interface = get_string(v)]
                   [] k = "socks-port" -> [general EXCEPT !.socks_port = get_value_u16(v)]
                   [] OTHER -> general

\* ------------------------------------------------------------------ from_lines: Proxy
\* Variant: ws and tls are parsed strictly, a value that is neither true nor
\* false leaving the flag absent.
ProxyParam_StrictFlags(proxy, param) ==
    LET parts == Split(param, "=")
        k == Join(Trim(parts[1]))
        v == Join(Trim(parts[2]))
        flag == IF v \in {"true", "false"} THEN Some(v = "true") ELSE None
    IN  IF Len(parts) # 2 THEN proxy
        ELSE IF Len(k) = 0 \/ Len(v) = 0 THEN proxy
        ELSE CASE k = "encrypt-method" -> [proxy EXCEPT !.encrypt_method = Some(v)]
               [] k = "password" -> [proxy EXCEPT !.password = Some(v)]
               [] k = "username" -> [proxy EXCEPT !.username = Some(v)]
               [] k = "ws" -> [proxy EXCEPT !.ws = flag]
               [] k = "tls" -> [proxy EXCEPT !.tls = flag]
               [] k = "ws-path" -> [proxy EXCEPT !.ws_path = Some(v)]
               [] k = "sni" -> [proxy EXCEPT !.sni = Some(v)]
               [] k = "interface" -> [proxy EXCEPT !.interface = v]
               [] OTHER -> proxy

\* One iteration of the loop over the key-value params of a proxy line.
ProxyParam(proxy, param) ==
    LET parts == Split(param, "=")
    IN  IF Len(parts) # 2 THEN proxy
        ELSE LET k == Join(Trim(parts[1]))
                 v == Join(Trim(parts[2]))
             IN  IF Len(k) = 0 \/ Len(v) = 0 THEN proxy
                 ELSE CASE k = "encrypt-method" -> [proxy EXCEPT !.encrypt_method = Some(v)]
                        [] k = "password" -> [proxy EXCEPT !.password = Some(v)]
                        [] k = "username" -> [proxy EXCEPT !.username = Some(v)]
                        [] k = "ws" -> [proxy EXCEPT !.ws = Some(v = "true")]
                        [] k = "tls" -> [proxy EXCEPT !.tls = Some(v = "true")]
                        [] k = "ws-path" -> [proxy EXCEPT !.ws_path = Some(v)]
                        [] k = "sni" -> [proxy EXCEPT !.sni = Some(v)]
                        [] k = "interface" -> [proxy EXCEPT !.interface = v]
                        [] OTHER -> proxy

\* The loop `for param in &params` over the first n params.
RECURSIVE ProxyParams(_, _, _)
ProxyParams(proxy, params, n) ==
    IF n = 0 THEN proxy ELSE ProxyParam(ProxyParams(proxy, params, n - 1), params[n])

\* The Proxy decoded from one line of the Proxy section, None when the loop
\* body ends in `continue` before the push.
ParseProxyLine(line) ==
    LET parts == SplitN2(line, "=")
    IN  IF Len(parts) # 2 THEN None
        ELSE IF Len(Trim(parts[1])) = 0 THEN None
        ELSE LET slice == get_char_sep_slice(parts[2], ",")
             IN  IF is_none(slice) THEN None
                 ELSE LET params == unwrap(slice)
                          proxy == ProxyParams([Proxy_default EXCEPT !.tag = Join(Trim(parts[1])),
                                                                     !.protocol = Join(params[1])],
                                               params, Len(params))
                          rest == Tail(params)
                      IN  IF proxy.protocol \in {"direct", "drop"} THEN Some(proxy)
                          ELSE IF proxy.protocol = "reject"
                               THEN Some([proxy EXCEPT !.protocol = "drop"])
                          ELSE IF Len(rest) < 2 THEN None
                          ELSE IF is_none(ParseU16(rest[2])) THEN None
                          ELSE Some([proxy EXCEPT !.address = Some(Join(rest[1])),
                                                  !.port = ParseU16(rest[2]),
                                                  !.protocol = IF @ = "ss" THEN "shadowsocks" ELSE @])

\* Variant: a line whose address or port is missing or malformed is pushed
\* as it stands.
ProxyLineStep_PushInvalid(proxies, line) ==
    LET parts == SplitN2(line, "=")
        slice == get_char_sep_slice(parts[Len(parts)], ",")
    IN  IF is_some(ParseProxyLine(line)) THEN Append(proxies, unwrap(ParseProxyLine(line)))
        ELSE IF Len(parts) = 2 /\ Len(Trim(parts[1])) > 0 /\ is_some(slice)
             THEN Append(proxies, [Proxy_default EXCEPT !.tag = Join(Trim(parts[1])),
                                                        !.protocol = Join(unwrap(slice)[1])])
             ELSE proxies

\* One iteration of the loop over the Proxy lines.
ProxyLineStep(proxies, line) ==
    IF is_some(ParseProxyLine(line)) THEN Append(proxies, unwrap(ParseProxyLine(line)))
    ELSE proxies

\* ------------------------------------------------------------------ from_lines: Proxy Group
\* Variant: the value is decoded as an unsigned number, a negative one is
\* no value.
GroupInt_Unsigned(v) ==
    IF is_some(ParseI32(v)) /\ unwrap(ParseI32(v)) < 0 THEN None ELSE ParseI32(v)

\* v.parse::<i32>() kept as an Option.
GroupInt(v) == ParseI32(v)

\* One iteration of the second loop over the params of a group line.
GroupParam(group, param) ==
    IF ~Contains(param, "=") THEN group
    ELSE LET parts == Split(param, "=")
         IN  IF Len(parts) # 2 THEN group
             ELSE LET k == Join(Trim(parts[1]))
                      v == Trim(parts[2])
                  IN  IF Len(k) = 0 \/ Len(v) = 0 THEN group
                      ELSE CASE k = "health-check" ->
                                  [group EXCEPT !.health_check = Some(Join(v) = "true")]
                             [] k = "check-interval" -> [group EXCEPT !.check_interval = GroupInt(v)]
                             [] k = "fail-timeout" -> [group EXCEPT !.fail_timeout = GroupInt(v)]
                             [] k = "failover" -> [group EXCEPT !.failover = Some(Join(v) = "true")]
                             [] k = "delay-base" -> [group EXCEPT !.delay_base = GroupInt(v)]
                             [] OTHER -> group

RECURSIVE GroupParams(_, _, _)
GroupParams(group, params, n) ==
    IF n = 0 THEN group ELSE GroupParam(GroupParams(group, params, n - 1), params[n])

\* Variant: url-test is renamed like fallback, its failover left as decoded.
GroupCompat_KeepFailover(group) ==
    IF group.protocol \in {"url-test", "fallback"}
    THEN [group EXCEPT !.protocol = "failover"]
    ELSE group

\* The compat remapping of url-test and fallback.
GroupCompat(group) ==
    CASE group.protocol = "url-test" ->
           [group EXCEPT !.protocol = "failover", !.failover = Some(FALSE)]
      [] group.protocol = "fallback" -> [group EXCEPT !.protocol = "failover"]
      [] OTHER -> group

\* The ProxyGroup decoded from one line of the Proxy Group section, None
\* when the loop body ends in `continue` before the push.
ParseProxyGroupLine(line) ==
    LET parts == SplitN2(line, "=")
    IN  IF Len(parts) # 2 THEN None
        ELSE IF Len(Trim(parts[1])) = 0 THEN None
        ELSE LET slice == get_char_sep_slice(parts[2], ",")
             IN  IF is_none(slice) THEN None
                 ELSE LET params == Tail(unwrap(slice))
                          IsActor(x) == ~Contains(x, "=") /\ Len(Trim(x)) > 0
                          actors == SelectSeq(params, IsActor)
                          group == [ProxyGroup_default EXCEPT
                                      !.tag = Join(Trim(parts[1])),
                                      !.protocol = Join(unwrap(slice)[1]),
                                      !.actors = Some([k \in 1..Len(actors) |-> Join(Trim(actors[k]))])]
                      IN  IF Len(params) = 0 \/ Len(actors) = 0 THEN None
                          ELSE Some(GroupCompat(GroupParams(group, params, Len(params))))

\* One iteration of the loop over the Proxy Group lines.
ProxyGroupLineStep(proxy_groups, line) ==
    IF is_some(ParseProxyGroupLine(line))
    THEN Append(proxy_groups, unwrap(ParseProxyGroupLine(line)))
    ELSE proxy_groups

\* ------------------------------------------------------------------ from_lines: Rule
FilterTypes == {"IP-CIDR", "DOMAIN", "DOMAIN-SUFFIX", "DOMAIN-KEYWORD", "GEOIP", "EXTERNAL"}

\* Variant: a line with two fields is decoded whatever its type, the second
\* field being the target.
ParseRuleLine_TwoFields(line) ==
    LET slice == get_char_sep_slice(line, ",")
    IN  IF is_none(slice) \/ Len(Items(slice)) < 2 THEN None
        ELSE LET params == unwrap(slice)
             IN  Some([type_field |-> Join(params[1]),
                       filter |-> IF Len(params) >= 3 /\ Join(params[1]) \in FilterTypes
                                  THEN Some(Join(params[2])) ELSE None,
                       target |-> Join(params[IF Len(params) >= 3 /\ Join(params[1]) # "FINAL"
                                              THEN 3 ELSE 2])])

\* The Rule decoded from one line of the Rule section, None when the loop
\* body ends in `continue` before the push.
ParseRuleLine(line) ==
    LET slice == get_char_sep_slice(line, ",")
    IN  IF is_none(slice) THEN None
        ELSE LET params == unwrap(slice)
                 type_field == Join(params[1])
             IN  IF Len(params) < 2 THEN None
                 ELSE IF type_field = "FINAL"
                      THEN Some([Rule_default EXCEPT !.type_field = type_field,
                                                     !.target = Join(params[2])])
                 ELSE IF Len(params) < 3 THEN None
                 ELSE Some([type_field |-> type_field,
                            filter |-> IF type_field \in FilterTypes
                                       THEN Some(Join(params[2])) ELSE None,
                            target |-> Join(params[3])])

\* One iteration of the loop over the Rule lines.
RuleLineStep(ext_rules_, line) ==
    IF is_some(ParseRuleLine(line)) THEN Append(ext_rules_, unwrap(ParseRuleLine(line)))
    ELSE ext_rules_

\* ------------------------------------------------------------------ to_internal: log
LogLevel(conf_) ==
    IF is_some(conf_.general) /\ is_some(unwrap(conf_.general).loglevel)
    THEN LET l == unwrap(unwrap(conf_.general).loglevel)
         IN  IF l \in {"trace", "debug", "info", "warn", "error"} THEN l ELSE "warn"
    ELSE "info"

BuildLog(conf_) == [level |-> LogLevel(conf_), output |-> "console"]

\* ------------------------------------------------------------------ to_internal: inbounds
HttpInbound(g) ==
    IF is_some(g.interface) /\ is_some(g.port)
    THEN << [Inbound_new EXCEPT !.protocol = "http",
                                !.listen = unwrap(g.interface),
                                !.port = AsU32(unwrap(g.port))] >>
    ELSE <<>>

SocksInbound(g) ==
    IF is_some(g.socks_interface) /\ is_some(g.socks_port)
    THEN << [Inbound_new EXCEPT !.protocol = "socks",
                                !.listen = unwrap(g.socks_interface),
                                !.port = AsU32(unwrap(g.socks_port)),
                                !.settings = [bind |-> unwrap(g.socks_interface)]] >>
    ELSE <<>>

\* TUNInboundSettings::new(): every field at its protobuf default.
TUNInboundSettings_new ==
    [fd |-> 0, name |-> "", address |-> "", gateway |-> "", netmask |-> "",
     mtu |-> 0, fake_dns_exclude |-> <<>>]

OrElse(o, d) == IF is_some(o) THEN unwrap(o) ELSE d

\* Variant: the tun block is read whenever it is present, the fd otherwise.
TunSettings_BlockFirst(g) ==
    LET s0 == [TUNInboundSettings_new EXCEPT !.fake_dns_exclude = Items(g.always_real_ip)]
    IN  IF is_none(g.tun)
        THEN [s0 EXCEPT !.fd = unwrap(g.tun_fd)]
        ELSE LET ext_tun == unwrap(g.tun)
             IN  [s0 EXCEPT !.fd = OrElse(g.tun_fd, -1),
                            !.name = OrElse(ext_tun.name, ""),
                            !.address = OrElse(ext_tun.address, ""),
                            !.gateway = OrElse(ext_tun.gateway, ""),
                            !.netmask = OrElse(ext_tun.netmask, ""),
                            !.mtu = OrElse(ext_tun.mtu, 1500)]

TunSettings(g) ==
    LET s0 == [TUNInboundSettings_new EXCEPT !.fake_dns_exclude = Items(g.always_real_ip)]
    IN  IF is_some(g.tun_fd)
        THEN [s0 EXCEPT !.fd = unwrap(g.tun_fd)]
        ELSE LET ext_tun == unwrap(g.tun)
             IN  [s0 EXCEPT !.fd = -1,
                            !.name = OrElse(ext_tun.name, ""),
                            !.address = OrElse(ext_tun.address, ""),
                            !.gateway = OrElse(ext_tun.gateway, ""),
                            !.netmask = OrElse(ext_tun.netmask, ""),
                            !.mtu = OrElse(ext_tun.mtu, 1500)]

TunInbound(g) ==
    IF is_some(g.tun_fd) \/ is_some(g.tun)
    THEN << [Inbound_new EXCEPT !.protocol = "tun", !.settings = TunSettings(g)] >>
    ELSE <<>>

BuildInbounds(conf_) ==
    IF is_some(conf_.general)
    THEN LET g == unwrap(conf_.general)
         IN  HttpInbound(g) \o SocksInbound(g) \o TunInbound(g)
    ELSE <<>>

\* ------------------------------------------------------------------ to_internal: outbounds of one proxy
TlsOutbound(ext_proxy) ==
    [protocol |-> "tls", tag |-> ext_proxy.tag \o "_tls_xxx", bind |-> ext_proxy.interface,
     settings |-> [server_name |-> OrElse(ext_proxy.sni, "")]]

WsOutbound(ext_proxy) ==
    [protocol |-> "ws", tag |-> ext_proxy.tag \o "_ws_xxx", bind |-> ext_proxy.interface,
     settings |-> [path |-> OrElse(ext_proxy.ws_path, "/")]]

\* chain_outbound: only tag, settings and protocol are assigned.
ChainOutbound(ext_proxy, actors) ==
    [Outbound_new EXCEPT !.tag = ext_proxy.tag, !.protocol = "chain",
                         !.settings = [actors |-> actors]]

ShadowsocksOutbounds(ext_proxy) ==
    << [protocol |-> "shadowsocks", tag |-> ext_proxy.tag, bind |-> ext_proxy.interface,
        settings |-> [address |-> OrElse(ext_proxy.address, ""),
                      port |-> IF is_some(ext_proxy.port) THEN AsU32(unwrap(ext_proxy.port)) ELSE AsU32(0),
                      method |-> OrElse(ext_proxy.encrypt_method, "chacha20-ietf-poly1305"),
                      password |-> OrElse(ext_proxy.password, "")]] >>

\* Variant: trojan honours the tls flag the way vmess and vless do.
TrojanOutbounds_TlsByFlag(ext_proxy) ==
    LET tls_outbound == TlsOutbound(ext_proxy)
        outbound == [protocol |-> "trojan", tag |-> ext_proxy.tag \o "_trojan_xxx",
                     bind |-> ext_proxy.interface,
                     settings |-> [address |-> OrElse(ext_proxy.address, ""),
                                   port |-> IF is_some(ext_proxy.port)
                                            THEN AsU32(unwrap(ext_proxy.port)) ELSE AsU32(0),
                                   password |-> OrElse(ext_proxy.password, "")]]
        tls == ext_proxy.tls = Some(TRUE)
        chain_outbound == ChainOutbound(ext_proxy,
                              (IF tls THEN <<tls_outbound.tag>> ELSE <<>>) \o <<outbound.tag>>)
    IN  <<chain_outbound>> \o (IF tls THEN <<tls_outbound>> ELSE <<>>) \o <<outbound>>

TrojanOutbounds(ext_proxy) ==
    LET tls_outbound == TlsOutbound(ext_proxy)
        outbound == [protocol |-> "trojan", tag |-> ext_proxy.tag \o "_trojan_xxx",
                     bind |-> ext_proxy.interface,
                     settings |-> [address |-> OrElse(ext_proxy.address, ""),
                                   port |-> IF is_some(ext_proxy.port)
                                            THEN AsU32(unwrap(ext_proxy.port)) ELSE AsU32(0),
                                   password |-> OrElse(ext_proxy.password, "")]]
        chain_outbound == ChainOutbound(ext_proxy, <<tls_outbound.tag, outbound.tag>>)
    IN  <<chain_outbound, tls_outbound, outbound>>

\* The settings of the base outbound of a vmess / vless proxy (all three
\* mandatory fields are present when this is used).
VxSettings(ext_proxy, role) ==
    IF role = "vmess"
    THEN [address |-> unwrap(ext_proxy.address), port |-> AsU32(unwrap(ext_proxy.port)),
          uuid |-> unwrap(ext_proxy.username),
          security |-> OrElse(ext_proxy.encrypt_method, "chacha20-ietf-poly1305")]
    ELSE [address |-> unwrap(ext_proxy.address), port |-> AsU32(unwrap(ext_proxy.port)),
          uuid |-> unwrap(ext_proxy.username)]

\* Variant: the ws actor is listed before the tls actor.
VxActors_WsFirst(ext_proxy, role) ==
    (IF unwrap(ext_proxy.ws) = TRUE THEN <<ext_proxy.tag \o "_ws_xxx">> ELSE <<>>)
    \o (IF unwrap(ext_proxy.tls) = TRUE THEN <<ext_proxy.tag \o "_tls_xxx">> ELSE <<>>)
    \o <<ext_proxy.tag \o "_" \o role \o "_xxx">>

\* chain_settings.actors of a vmess / vless proxy (tls and ws are present).
VxActors(ext_proxy, role) ==
    (IF unwrap(ext_proxy.tls) = TRUE THEN <<ext_proxy.tag \o "_tls_xxx">> ELSE <<>>)
    \o (IF unwrap(ext_proxy.ws) = TRUE THEN <<ext_proxy.tag \o "_ws_xxx">> ELSE <<>>)
    \o <<ext_proxy.tag \o "_" \o role \o "_xxx">>

\* Variant: the chain outbound is pushed after its sub-outbounds.
VxPushes_ChainLast(ext_proxy, role) ==
    LET outbound == [protocol |-> role, tag |-> ext_proxy.tag \o "_" \o role \o "_xxx",
                     bind |-> ext_proxy.interface, settings |-> VxSettings(ext_proxy, role)]
    IN  (IF unwrap(ext_proxy.tls) = TRUE THEN <<TlsOutbound(ext_proxy)>> ELSE <<>>)
        \o (IF unwrap(ext_proxy.ws) = TRUE THEN <<WsOutbound(ext_proxy)>> ELSE <<>>)
        \o <<outbound>>
        \o <<ChainOutbound(ext_proxy, VxActors(ext_proxy, role))>>

\* The pushes of the vmess / vless branch, chain first.
VxPushes(ext_proxy, role) ==
    LET outbound == [protocol |-> role, tag |-> ext_proxy.tag \o "_" \o role \o "_xxx",
                     bind |-> ext_proxy.interface, settings |-> VxSettings(ext_proxy, role)]
    IN  <<ChainOutbound(ext_proxy, VxActors(ext_proxy, role))>>
        \o (IF unwrap(ext_proxy.tls) = TRUE THEN <<TlsOutbound(ext_proxy)>> ELSE <<>>)
        \o (IF unwrap(ext_proxy.ws) = TRUE THEN <<WsOutbound(ext_proxy)>> ELSE <<>>)
        \o <<outbound>>

\* Variant: a proxy with a missing mandatory field is skipped.
VxOutbounds_Skip(ext_proxy, role) ==
    IF is_none(ext_proxy.address) \/ is_none(ext_proxy.port) \/ is_none(ext_proxy.username)
    THEN [status |-> "ok", msg |-> "", obs |-> <<>>]
    ELSE IF is_none(ext_proxy.tls) \/ is_none(ext_proxy.ws)
         THEN [status |-> "panic", msg |-> "", obs |-> <<>>]
    ELSE [status |-> "ok", msg |-> "", obs |-> VxPushes(ext_proxy, role)]

\* Outcome of the "vmess" / "vless" branch: Err when a mandatory field is
\* missing, a panic when Option::unwrap meets an absent tls or ws flag,
\* otherwise the outbounds pushed.
VxOutbounds(ext_proxy, role) ==
    IF is_none(ext_proxy.address) \/ is_none(ext_proxy.port) \/ is_none(ext_proxy.username)
    THEN [status |-> "err", msg |-> "invalid " \o role \o " outbound settings", obs |-> <<>>]
    ELSE IF is_none(ext_proxy.tls) \/ is_none(ext_proxy.ws)
         THEN [status |-> "panic", msg |-> "", obs |-> <<>>]
    ELSE [status |-> "ok", msg |-> "", obs |-> VxPushes(ext_proxy, role)]

\* One iteration of `for ext_proxy in ext_proxies`.
ProxyOutbounds(ext_proxy) ==
    LET ext_protocol == IF ext_proxy.protocol = "ss" THEN "shadowsocks" ELSE ext_proxy.protocol
    IN  CASE ext_protocol \in {"direct", "drop"} ->
               [status |-> "ok", msg |-> "",
                obs |-> << [Outbound_new EXCEPT !.protocol = ext_protocol,
                                                !.tag = ext_proxy.tag,
                                                !.bind = ext_proxy.interface] >>]
          [] ext_protocol = "shadowsocks" ->
               [status |-> "ok", msg |-> "", obs |-> ShadowsocksOutbounds(ext_proxy)]
          [] ext_protocol = "trojan" ->
               [status |-> "ok", msg |-> "", obs |-> TrojanOutbounds(ext_proxy)]
          [] ext_protocol \in {"vmess", "vless"} -> VxOutbounds(ext_proxy, ext_protocol)
          [] OTHER -> [status |-> "ok", msg |-> "", obs |-> <<>>]

\* ------------------------------------------------------------------ to_internal: outbound of one proxy group
\* Variant: the bind of the group outbound is left at its default.
GroupOutbound_NoBind(ext_proxy_group) ==
    [Outbound_new EXCEPT !.protocol = ext_proxy_group.protocol, !.tag = ext_proxy_group.tag]

\* The outbound of a proxy group before its settings are filled in.
GroupOutbound(ext_proxy_group) ==
    [Outbound_new EXCEPT !.protocol = ext_proxy_group.protocol,
                         !.tag = ext_proxy_group.tag,
                         !.bind = "0.0.0.0"]

\* One iteration of `for ext_proxy_group in ext_proxy_groups`: the outbounds
\* pushed (none for a protocol other than tryall, random, failover).
GroupOutbounds(ext_proxy_group) ==
    LET outbound == GroupOutbound(ext_proxy_group)
        actors == Items(ext_proxy_group.actors)
    IN  CASE outbound.protocol = "tryall" ->
               << [outbound EXCEPT !.settings =
                     [actors |-> actors,
                      delay_base |-> IF is_some(ext_proxy_group.delay_base)
                                     THEN AsU32(unwrap(ext_proxy_group.delay_base)) ELSE AsU32(0)]] >>
          [] outbound.protocol = "random" ->
               << [outbound EXCEPT !.settings = [actors |-> actors]] >>
          [] outbound.protocol = "failover" ->
               << [outbound EXCEPT !.settings =
                     [actors |-> actors,
                      fail_timeout |-> IF is_some(ext_proxy_group.fail_timeout)
                                       THEN AsU32(unwrap(ext_proxy_group.fail_timeout)) ELSE AsU32(4),
                      health_check |-> OrElse(ext_proxy_group.health_check, TRUE),
                      check_interval |-> IF is_some(ext_proxy_group.check_interval)
                                         THEN AsU32(unwrap(ext_proxy_group.check_interval)) ELSE AsU32(300),
                      failover |-> OrElse(ext_proxy_group.failover, TRUE)]] >>
          [] OTHER -> <<>>

\* ------------------------------------------------------------------ to_internal: rules
\* Vec::remove(idx) followed by Vec::insert(0, x), 1-based here.
RemoveAt(s, k) == SubSeq(s, 1, k - 1) \o SubSeq(s, k + 1, Len(s))

\* Variant: the loop stops at the first index whose tag equals the target.
FinalIdx_First(obs, target) ==
    LET hits == {k \in 1..Len(obs) : obs[k].tag = target}
    IN  IF hits = {} THEN 0 ELSE CHOOSE k \in hits : \A h \in hits : k <= h

\* The FINAL loop keeps the last index whose tag equals the target (0: none).
FinalIdx(obs, target) ==
    LET hits == {k \in 1..Len(obs) : obs[k].tag = target}
    IN  IF hits = {} THEN 0 ELSE CHOOSE k \in hits : \A h \in hits : h <= k

\* Variant: the FINAL outbound is pushed back instead of inserted at 0.
MoveFinalFirst_Push(obs, target) ==
    LET idx == FinalIdx(obs, target)
    IN  IF idx = 0 THEN obs ELSE RemoveAt(obs, idx) \o <<obs[idx]>>

\* Variant: the FINAL outbound is swapped with the first one.
MoveFinalFirst_Swap(obs, target) ==
    LET idx == FinalIdx(obs, target)
    IN  IF idx = 0 THEN obs ELSE [obs EXCEPT ![1] = obs[idx], ![idx] = obs[1]]

MoveFinalFirst(obs, target) ==
    LET idx == FinalIdx(obs, target)
    IN  IF idx = 0 THEN obs ELSE <<obs[idx]>> \o RemoveAt(obs, idx)

\* The rule sets known to the external-rule expander, by rule-set identifier:
\* the domain matchers each one expands to.  Any other identifier fails to load.
ExternalRuleSets ==
    [x \in {"site:geo.dat:cn"} |-> << [field_type |-> "DOMAIN", value |-> "example.cn"] >>]

\* external_rule::add_external_rule(&mut rule, &ext_filter, &mut site_group_lists)
add_external_rule(rule, ext_filter) ==
    IF ext_filter \in DOMAIN ExternalRuleSets
    THEN [ok |-> TRUE, rule |-> [rule EXCEPT !.domains = @ \o ExternalRuleSets[ext_filter]]]
    ELSE [ok |-> FALSE, rule |-> rule]

GeoMmdbFile == "<current_exe dir>/geo.mmdb"

Domain(type, value) == [field_type |-> type, value |-> value]

\* The routing rule built from a non-FINAL rule that has a filter.
FilterRuleOf(ext_rule) ==
    LET rule == [RoutingRule_new EXCEPT !.target_tag = ext_rule.target]
        ext_filter == unwrap(ext_rule.filter)
        t == ext_rule.type_field
    IN  CASE t = "IP-CIDR" -> [rule EXCEPT !.ip_cidrs = Append(@, ext_filter)]
          [] t = "DOMAIN" -> [rule EXCEPT !.domains = Append(@, Domain("FULL", ext_filter))]
          [] t = "DOMAIN-KEYWORD" -> [rule EXCEPT !.domains = Append(@, Domain("PLAIN", ext_filter))]
          [] t = "DOMAIN-SUFFIX" -> [rule EXCEPT !.domains = Append(@, Domain("DOMAIN", ext_filter))]
          [] t = "GEOIP" -> [rule EXCEPT !.mmdbs =
                               Append(@, [file |-> GeoMmdbFile, country_code |-> ext_filter])]
          [] t = "EXTERNAL" -> add_external_rule(rule, ext_filter).rule
          [] OTHER -> rule

\* Variant: a rule whose external rule set fails to load is not pushed.
RulePushes_SkipFailed(ext_rule) ==
    IF is_some(ext_rule.filter)
    THEN IF ext_rule.type_field = "EXTERNAL"
            /\ ~add_external_rule(RoutingRule_new, unwrap(ext_rule.filter)).ok
         THEN <<>>
         ELSE <<FilterRuleOf(ext_rule)>>
    ELSE <<>>

\* The routing rules pushed by one iteration of `for ext_rule in ext_rules`
\* for a rule that is not FINAL.
RulePushes(ext_rule) ==
    IF is_some(ext_rule.filter) THEN <<FilterRuleOf(ext_rule)>> ELSE <<>>

\* ------------------------------------------------------------------ to_internal: dns
BuildDns(conf_) ==
    IF is_some(conf_.general)
    THEN LET g == unwrap(conf_.general)
             servers == Items(g.dns_server)
         IN  [bind |-> OrElse(g.dns_interface, "0.0.0.0"),
              servers |-> IF is_some(g.dns_server)
                          THEN (IF Len(servers) = 0 THEN <<"114.114.114.114", "8.8.8.8">>
                                ELSE servers)
                          ELSE <<>>]
    ELSE [bind |-> "", servers |-> <<>>]

\* ------------------------------------------------------------------ external configs given to to_internal
P(tag, protocol) == [Proxy_default EXCEPT !.tag = tag, !.protocol = protocol]

\* A proxy with address, port and the credentials of its protocol.
Remote(tag, protocol, tls, ws) ==
    [P(tag, protocol) EXCEPT !.address = Some("1.2.3.4"), !.port = Some(443),
                             !.password = Some("pw"), !.username = Some("uuid-1"),
                             !.tls = Some(tls), !.ws = Some(ws)]

ProxyCatalog ==
    { P("a", "direct"),
      P("a_tls_xxx", "drop"),
      [Remote("b", "ss", FALSE, FALSE) EXCEPT !.encrypt_method = None],
      [Remote("a", "trojan", FALSE, TRUE) EXCEPT !.sni = Some("sni.example")],
      Remote("b", "trojan", TRUE, FALSE),
      Remote("a", "vmess", TRUE, TRUE),
      [Remote("b", "vmess", FALSE, FALSE) EXCEPT !.interface = "10.0.0.1"],
      Remote("b", "vless", TRUE, FALSE),
      [Remote("a", "vless", FALSE, TRUE) EXCEPT !.ws_path = Some("/ws")],
      [Remote("b", "vmess", TRUE, FALSE) EXCEPT !.username = None],
      [Remote("a", "vless", FALSE, FALSE) EXCEPT !.port = None],
      [Remote("b", "vless", FALSE, TRUE) EXCEPT !.address = None],
      Remote("b", "socks", FALSE, FALSE) }

G(tag, protocol, actors) ==
    [ProxyGroup_default EXCEPT !.tag = tag, !.protocol = protocol, !.actors = Some(actors)]

ProxyGroupCatalog ==
    { G("g", "failover", <<"a", "b">>),
      [G("a", "tryall", <<"b">>) EXCEPT !.delay_base = None],
      G("b", "random", <<"a", "a">>),
      G("g", "select", <<"a">>) }

R(type_field, filter, target) == [type_field |-> type_field, filter |-> filter, target |-> target]

RuleCatalog ==
    { R("FINAL", None, "a"),
      R("FINAL", None, "b"),
      R("FINAL", None, "a_tls_xxx"),
      R("FINAL", None, "nowhere"),
      R("IP-CIDR", Some("10.0.0.0/8"), "a"),
      R("DOMAIN-SUFFIX", Some("example.com"), "b"),
      R("GEOIP", Some("cn"), "g"),
      R("EXTERNAL", Some("site:geo.dat:cn"), "a"),
      R("EXTERNAL", Some("site:missing.dat:cn"), "b"),
      R("MATCH", None, "a") }

SeqsOfLen(S, n) == [1..n -> S]

\* The external configs with default General and at most MaxEntries proxies,
\* groups and rules in all.
IsEntryConfig(c) ==
    \E np \in 0..MaxEntries :
      \E ng \in 0..(MaxEntries - np) :
        \E nr \in 0..(MaxEntries - np - ng) :
          \E ps \in SeqsOfLen(ProxyCatalog, np) :
            \E gs \in SeqsOfLen(ProxyGroupCatalog, ng) :
              \E rs \in SeqsOfLen(RuleCatalog, nr) :
                c = [general |-> Some(General_default), proxy |-> Some(ps),
                     proxy_group |-> Some(gs), rule |-> Some(rs)]

\* A tun block as from_lines builds it: four strings and an mtu that is
\* absent when its text is no i32.
TunBlock(mtu) ==
    [name |-> Some("utun8"), address |-> Some("10.0.0.2"), netmask |-> Some("255.255.255.0"),
     gateway |-> Some("10.0.0.1"), mtu |-> mtu]

\* Generals with every combination of the settings the inbounds are built from.
GeneralInboundCatalog ==
    { [General_default EXCEPT !.interface = a, !.port = b, !.socks_interface = c,
                              !.socks_port = d, !.tun_fd = e, !.tun = f] :
        a \in {None, Some("127.0.0.1")}, b \in {None, Some(1087)},
        c \in {None, Some("0.0.0.0")}, d \in {None, Some(1086)},
        e \in {None, Some(7)},
        f \in {None, Some(TunBlock(None)), Some(TunBlock(Some(1400)))} }

GeneralCatalog ==
    GeneralInboundCatalog \cup
    { [General_default EXCEPT !.interface = Some("127.0.0.1"), !.port = Some(1087),
                              !.loglevel = Some("debug")],
      [General_default EXCEPT !.socks_interface = Some("127.0.0.1"), !.socks_port = Some(1086),
                              !.dns_server = Some(<<"1.1.1.1">>), !.loglevel = Some("verbose")],
      [General_default EXCEPT !.tun_fd = Some(7),
                              !.tun = Some([TUN_default EXCEPT !.name = Some("utun8")]),
                              !.always_real_ip = Some(<<"tracker">>)],
      [General_default EXCEPT !.tun = Some([TUN_default EXCEPT !.name = Some("utun8")]),
                              !.dns_interface = Some("192.168.0.2"),
                              !.dns_server = Some(<<>>)] }

\* The external configs that carry a General section only, and the empty one.
GeneralConfigs ==
    { [Config_default EXCEPT !.general = Some(g)] : g \in GeneralCatalog } \cup { Config_default }

\* ------------------------------------------------------------------ to_internal: the steps
ext_proxies == Items(conf.proxy)

ext_proxy_groups == Items(conf.proxy_group)

ext_rules == Items(conf.rule)

\* Log and inbounds (the statements before the proxy loop).
LogInbounds ==
    /\ pc = "to_internal"
    /\ log' = BuildLog(conf)
    /\ inbounds' = BuildInbounds(conf)
    /\ pc' = "proxies"
    /\ i' = 1
    /\ UNCHANGED <<lines, parsed, sect_lines, conf, outbounds, rules, result>>

\* One iteration of the proxy loop.
ProxyStep ==
    /\ pc = "proxies"
    /\ i <= Len(ext_proxies)
    /\ LET r == ProxyOutbounds(ext_proxies[i])
       IN  CASE r.status = "ok" ->
                  /\ outbounds' = outbounds \o r.obs
                  /\ i' = i + 1
                  /\ UNCHANGED <<pc, result>>
             [] r.status = "err" ->
                  /\ pc' = "err"
                  /\ result' = Some([ok |-> FALSE, err |-> r.msg])
                  /\ UNCHANGED <<outbounds, i>>
             [] OTHER ->
                  /\ pc' = "panic"
                  /\ UNCHANGED <<outbounds, i, result>>
    /\ UNCHANGED <<lines, parsed, sect_lines, conf, log, inbounds, rules>>

ProxiesDone ==
    /\ pc = "proxies"
    /\ i > Len(ext_proxies)
    /\ pc' = "groups"
    /\ i' = 1
    /\ UNCHANGED <<lines, parsed, sect_lines, conf, log, inbounds, outbounds, rules, result>>

\* One iteration of the proxy group loop.
GroupStep ==
    /\ pc = "groups"
    /\ i <= Len(ext_proxy_groups)
    /\ outbounds' = outbounds \o GroupOutbounds(ext_proxy_groups[i])
    /\ i' = i + 1
    /\ UNCHANGED <<lines, parsed, sect_lines, conf, pc, log, inbounds, rules, result>>

GroupsDone ==
    /\ pc = "groups"
    /\ i > Len(ext_proxy_groups)
    /\ pc' = "rules"
    /\ i' = 1
    /\ UNCHANGED <<lines, parsed, sect_lines, conf, log, inbounds, outbounds, rules, result>>

\* One iteration of the rule loop on a FINAL rule.
FinalRule ==
    /\ pc = "rules"
    /\ i <= Len(ext_rules)
    /\ ext_rules[i].type_field = "FINAL"
    /\ outbounds' = MoveFinalFirst(outbounds, ext_rules[i].target)
    /\ i' = i + 1
    /\ UNCHANGED <<lines, parsed, sect_lines, conf, pc, log, inbounds, rules, result>>

\* One iteration of the rule loop on any other rule.
RoutingRule ==
    /\ pc = "rules"
    /\ i <= Len(ext_rules)
    /\ ext_rules[i].type_field # "FINAL"
    /\ rules' = rules \o RulePushes(ext_rules[i])
    /\ i' = i + 1
    /\ UNCHANGED <<lines, parsed, sect_lines, conf, pc, log, inbounds, outbounds, result>>

\* After the rule loop: dns, and the internal config returned.
Return ==
    /\ pc = "rules"
    /\ i > Len(ext_rules)
    /\ result' = Some([ok |-> TRUE,
                       config |-> [log |-> log, inbounds |-> inbounds, outbounds |-> outbounds,
                                   routing_rules |-> rules, dns |-> BuildDns(conf)]])
    /\ pc' = "done"
    /\ UNCHANGED <<lines, parsed, sect_lines, conf, i, log, inbounds, outbounds, rules>>

ToInternalNext ==
    \/ LogInbounds
    \/ ProxyStep
    \/ ProxiesDone
    \/ GroupStep
    \/ GroupsDone
    \/ FinalRule
    \/ RoutingRule
    \/ Return

\* internal::Log::new()
Log_new == [level |-> "info", output |-> "console"]

Parsed_new == [general |-> General_default, proxies |-> <<>>, proxy_groups |-> <<>>, rules |-> <<>>]

\* to_internal called on an external config.
Init ==
    /\ lines = <<>>
    /\ parsed = Parsed_new
    /\ sect_lines = <<>>
    /\ (IsEntryConfig(conf) \/ conf \in GeneralConfigs)
    /\ pc = "to_internal"
    /\ i = 1
    /\ log = Log_new
    /\ inbounds = <<>>
    /\ outbounds = <<>>
    /\ rules = <<>>
    /\ result = None

Next == ToInternalNext

Spec == Init /\ [][Next]_vars

\* ------------------------------------------------------------------ input files
Ok(text) == Some(text)

SectionNames == {"General", "Proxy", "Proxy Group", "Rule"}

HeaderOf(section) ==
    CASE section = "General" -> <<"[", "General", "]">>
      [] section = "Proxy" -> <<"[", "Proxy", "]">>
      [] section = "Proxy Group" -> <<"[", "Proxy", " ", "Group", "]">>
      [] section = "Rule" -> <<"[", "Rule", "]">>

\* Lines that carry no entry in any section: an unreadable line, a comment,
\* the header of a section that is not read, the header of the last section.
OtherLines ==
    { None,
      Ok(<<"#", " ", "note">>),
      Ok(<<"[", "Host", "]">>),
      Ok(<<"[", "Rule", "]">>) }

GeneralLines ==
    { Ok(<<"loglevel", " ", "=", " ", "debug">>),
      Ok(<<"interface", " ", "=", " ", "127.0.0.1">>),
      Ok(<<"port", " ", "=", " ", "1", "0", "8", "7">>),
      Ok(<<"dns-server", " ", "=", " ", "1.1.1.1", ",", " ", "8.8.8.8">>),
      Ok(<<"tun", " ", "=", " ", "utun8", ",", "10.0.0.2", ",", "255.255.255.0", ",",
           "10.0.0.1", ",", "1", "5", "0", "0">>) }

ProxyLines ==
    { Ok(<<"a", " ", "=", " ", "direct">>),
      Ok(<<"a", "=", "reject", " ", "#", " ", "compat">>),
      Ok(<<"b", " ", "=", " ", "ss", ",", " ", "1.2.3.4", ",", " ", "4", "4", "3", ",", " ",
           "password", "=", "pw">>),
      Ok(<<"a", " ", "=", " ", "vmess", ",", " ", "1.2.3.4", ",", " ", "4", "4", "3", ",", " ",
           "username", "=", "uuid-1", ",", " ", "tls", "=", "true">>),
      Ok(<<"b", "=", "vless", ",", "1.2.3.4", ",", "4", "4", "3">>),
      Ok(<<"b", "=", "trojan", ",", "1.2.3.4">>),
      Ok(<<"a", "=", "vmess", ",", "1.2.3.4", ",", "7", "0", "0", "0", "0", ",",
           "username", "=", "uuid-1">>),
      Ok(<<" ", "=", " ", "direct">>) }

ProxyGroupLines ==
    { Ok(<<"g", " ", "=", " ", "failover", ",", " ", "a", ",", " ", "b", ",", " ",
           "health-check", "=", "false", ",", " ", "check-interval", "=", "6", "0">>),
      Ok(<<"g", "=", "url-test", ",", "a", ",", "failover", "=", "true">>),
      Ok(<<"b", "=", "tryall", ",", "a", ",", "delay-base", "=", "-", "1">>),
      Ok(<<"g", "=", "select", ",", "a">>),
      Ok(<<"g", "=", "random">>),
      Ok(<<"=", "random", ",", "a">>) }

RuleLines ==
    { Ok(<<"FINAL", ",", " ", "a">>),
      Ok(<<"IP-CIDR", ",", " ", "10.0.0.0/8", ",", " ", "a">>),
      Ok(<<"DOMAIN-SUFFIX", ",", "example.com", ",", "b">>),
      Ok(<<"MATCH", ",", "x", ",", "a">>),
      Ok(<<"IP-CIDR", ",", " ", "10.0.0.0/8">>),
      Ok(<<"FINAL">>) }

LinesOf(section) ==
    CASE section = "General" -> GeneralLines
      [] section = "Proxy" -> ProxyLines
      [] section = "Proxy Group" -> ProxyGroupLines
      [] section = "Rule" -> RuleLines

\* An input file: the header of one of the four sections and at most
\* MaxLines lines after it.
IsFile(ls) ==
    \E section \in SectionNames :
      \E n \in 0..MaxLines :
        \E body \in SeqsOfLen(LinesOf(section) \cup OtherLines, n) :
          ls = <<Ok(HeaderOf(section))>> \o body

\* ------------------------------------------------------------------ from_lines: the steps
FromLinesStages == {"General", "Proxy", "Proxy Group", "Rule"}

\* One iteration of the loop over general_lines.
GeneralLine ==
    /\ pc = "General"
    /\ i <= Len(sect_lines)
    /\ parsed' = [parsed EXCEPT !.general = GeneralLineStep(@, sect_lines[i])]
    /\ i' = i + 1
    /\ UNCHANGED <<lines, sect_lines, conf, pc, log, inbounds, outbounds, rules, result>>

\* One iteration of the loop over proxy_lines.
ProxyLine ==
    /\ pc = "Proxy"
    /\ i <= Len(sect_lines)
    /\ parsed' = [parsed EXCEPT !.proxies = ProxyLineStep(@, sect_lines[i])]
    /\ i' = i + 1
    /\ UNCHANGED <<lines, sect_lines, conf, pc, log, inbounds, outbounds, rules, result>>

\* One iteration of the loop over proxy_group_lines.
ProxyGroupLine ==
    /\ pc = "Proxy Group"
    /\ i <= Len(sect_lines)
    /\ parsed' = [parsed EXCEPT !.proxy_groups = ProxyGroupLineStep(@, sect_lines[i])]
    /\ i' = i + 1
    /\ UNCHANGED <<lines, sect_lines, conf, pc, log, inbounds, outbounds, rules, result>>

\* One iteration of the loop over rule_lines.
RuleLine ==
    /\ pc = "Rule"
    /\ i <= Len(sect_lines)
    /\ parsed' = [parsed EXCEPT !.rules = RuleLineStep(@, sect_lines[i])]
    /\ i' = i + 1
    /\ UNCHANGED <<lines, sect_lines, conf, pc, log, inbounds, outbounds, rules, result>>

SectionAfter(section) ==
    CASE section = "General" -> "Proxy"
      [] section = "Proxy" -> "Proxy Group"
      [] section = "Proxy Group" -> "Rule"

\* A section loop is over: the lines of the next section are collected.
NextSection ==
    /\ pc \in {"General", "Proxy", "Proxy Group"}
    /\ i > Len(sect_lines)
    /\ pc' = SectionAfter(pc)
    /\ sect_lines' = get_lines_by_section(SectionAfter(pc), lines)
    /\ i' = 1
    /\ UNCHANGED <<lines, parsed, conf, log, inbounds, outbounds, rules, result>>

\* The Config assembled from the four locals.
ConfigOf(p) ==
    [general |-> Some(p.general), proxy |-> Some(p.proxies),
     proxy_group |-> Some(p.proxy_groups), rule |-> Some(p.rules)]

\* from_lines returns Ok(config); from_file passes it to to_internal.
FromLinesReturn ==
    /\ pc = "Rule"
    /\ i > Len(sect_lines)
    /\ conf' = ConfigOf(parsed)
    /\ pc' = "to_internal"
    /\ i' = 1
    /\ UNCHANGED <<lines, parsed, sect_lines, log, inbounds, outbounds, rules, result>>

FromLinesNext ==
    \/ GeneralLine
    \/ ProxyLine
    \/ ProxyGroupLine
    \/ RuleLine
    \/ NextSection
    \/ FromLinesReturn

\* from_file called on the lines of a file.
InitFile ==
    /\ IsFile(lines)
    /\ parsed = Parsed_new
    /\ sect_lines = get_lines_by_section("General", lines)
    /\ conf = Config_default
    /\ pc = "General"
    /\ i = 1
    /\ log = Log_new
    /\ inbounds = <<>>
    /\ outbounds = <<>>
    /\ rules = <<>>
    /\ result = None

NextFile == FromLinesNext \/ ToInternalNext

SpecFile == InitFile /\ [][NextFile]_vars

\* ------------------------------------------------------------------ input texts
\* Lines of the Rule section: two, three and four fields, empty fields,
\* known and unknown types.
RuleText ==
    { Ok(<<"FINAL", ",", " ", "a">>),
      Ok(<<"FINAL", ",", " ", "a", ",", " ", "b">>),
      Ok(<<"FINAL", ",", " ", ",", " ", "b">>),
      Ok(<<"FINAL">>),
      Ok(<<"IP-CIDR", ",", " ", "10.0.0.0/8", ",", " ", "a">>),
      Ok(<<"IP-CIDR", ",", " ", "10.0.0.0/8">>),
      Ok(<<"IP-CIDR", ",", " ", ",", " ", "a">>),
      Ok(<<"IP-CIDR", ",", "10.0.0.0/8", ",", "a", ",", "b">>),
      Ok(<<"DOMAIN-SUFFIX", ",", "example.com", ",", "b">>),
      Ok(<<"MATCH", ",", "x", ",", "a">>),
      Ok(<<"FINAL", ",", " ", "a", " ", "#", " ", "default", ",", " ", "b">>),
      Ok(<<"FINAL", ",", " ", "a", " ", "#", " ", "see", " ", "*", "note">>),
      Ok(<<"#", "#", " ", "FINAL", ",", " ", "a">>) }

GeneralText ==
    { Ok(<<"loglevel", " ", "=", " ", "debug">>),
      Ok(<<"dns-server", " ", "=", " ", "1.1.1.1", ",", " ", "8.8.8.8">>),
      Ok(<<"dns-server", " ", "=", " ", ",">>),
      Ok(<<"dns-server", "=">>),
      Ok(<<"dns-interface", " ", "=", " ", "192.168.0.2">>),
      Ok(<<"interface", " ", "=", " ", "127.0.0.1">>),
      Ok(<<"port", " ", "=", " ", "1", "0", "8", "7">>),
      Ok(<<"port", " ", "=", " ", "7", "0", "0", "0", "0">>),
      Ok(<<"tun-fd", "=", "7", "x">>),
      Ok(<<"loglevel", " ", "=", " ">>),
      Ok(<<"port", "=", "=", "5">>),
      Ok(<<" ", "=", " ", "trace">>) }

ProxyText ==
    { Ok(<<"a", " ", "=", " ", "direct">>),
      Ok(<<"a", "=", "vmess", ",", "1.2.3.4", ",", "4", "4", "3", ",", "username", "=", "uuid-1",
           ",", "tls", "=", "yes", ",", "ws", "=", "1">>),
      Ok(<<"a", "=", "vmess", ",", "1.2.3.4", ",", "4", "4", "3", ",", "username", "=", "uuid-1",
           ",", "tls", "=", "true">>),
      Ok(<<"b", "=", "ss", ",", "1.2.3.4", ",", "4", "4", "3", ",", "password", "=", "pw", ",",
           "password", "=", " ", ",", "encrypt-method", "=", "=", "x", ",", "=", "y", ",",
           "sni", "=", "s", "=", "t">>),
      Ok(<<"b", "=", "vless", ",", "1.2.3.4", ",", "4", "4", "3", ",", "ws", "=", "true", ",",
           "ws", "=", ",", "tls", "=", "=", "true">>),
      Ok(<<"b", "=", "vless", ",", "1.2.3.4", ",", "4", "4", "3", ",", "tls", "=", "TRUE", ",",
           "username", "=", "uuid-2">>) }

ProxyGroupText ==
    { Ok(<<"g", "=", "failover", ",", "a", ",", "b">>),
      Ok(<<"g", "=", "failover", ",", "a", ",", "failover", "=", "false">>),
      Ok(<<"g", " ", "=", " ", "url-test", ",", " ", "a", ",", " ", "failover", "=", "true">>),
      Ok(<<"g", "=", "url-test", ",", "failover", " ", "=", " ", "true", ",", "a">>),
      Ok(<<"g", "=", "url-test", ",", "a", ",", "b">>),
      Ok(<<"g", "=", "fallback", ",", "a", ",", "b">>),
      Ok(<<"g", "=", "fallback", ",", "a", ",", "failover", "=", "false">>),
      Ok(<<"g", "=", "fallback", ",", "failover", "=", "true", ",", "a">>),
      Ok(<<"g", "=", "failover", ",", "a", ",", "health-check", "=", "yes">>),
      Ok(<<"g", "=", "failover", ",", "a", ",", "check-interval", "=", "6", "0", "s", ",",
           "fail-timeout", "=", "1", ".", "5">>),
      Ok(<<"g", "=", "failover", ",", "a", ",", "check-interval", "=", "6", "0", ",",
           "health-check", "=", "false">>),
      Ok(<<"b", "=", "tryall", ",", "a", ",", "delay-base", "=", "x">>),
      Ok(<<"g", "=", "failover", ",", "a", ",", "check-interval", "=", ",",
           "fail-timeout", "=", "7", "=", "8", ",", "=", "false">>),
      Ok(<<"g", "=", "failover", ",", "a", ",", "check-interval", "=", "-", "1", ",",
           "fail-timeout", "=", "-", "2", "1", "4", "7", "4", "8", "3", "6", "4", "8">>),
      Ok(<<"g", " ", "=", " ", "url-test", ",", " ", "a", ",", " ", "fail-timeout", " ", "=", " ",
           "+", "5", ",", " ", "check-interval", " ", "=", " ", "-", "3", "0", "0">>),
      Ok(<<"g", "=", "fallback", ",", "a", ",", "check-interval", "=",
           "2", "1", "4", "7", "4", "8", "3", "6", "4", "7", ",", "fail-timeout", "=", "-", "0">>),
      Ok(<<"g", "=", "failover", ",", "a", ",", "check-interval", "=",
           "-", "2", "1", "4", "7", "4", "8", "3", "6", "4", "9">>),
      Ok(<<"b", "=", "tryall", ",", "a", ",", "delay-base", "=", "-", "1">>),
      Ok(<<"b", "=", "tryall", ",", "a", ",", "delay-base", "=", "7", ",",
           "delay-base", "=", "-", "6", "5", "5", "3", "7">>),
      Ok(<<"b", "=", "tryall", ",", "a", ",", "delay-base", "=", "-", "1", ",",
           "delay-base", "=", "0", "7", "0", "0", "0", "0">>) }

\* An unreadable line and headers of the Rule section with whitespace around
\* the brackets and around the name.
OtherText ==
    { None,
      Ok(<<" ", "[", "Rule", "]", "\t">>),
      Ok(<<"[", " ", "Rule", "]">>),
      Ok(<<"[", " ", "Rule", " ", "]", " ", "#", " ", "rules">>) }

TextOf(section) ==
    CASE section = "General" -> GeneralText
      [] section = "Proxy" -> ProxyText
      [] section = "Proxy Group" -> ProxyGroupText
      [] section = "Rule" -> RuleText

\* An input text: the header of one of the four sections and at most
\* MaxTextLines lines after it.
IsText(ls) ==
    \E section \in SectionNames :
      \E n \in 0..MaxTextLines :
        \E body \in SeqsOfLen(TextOf(section) \cup OtherText, n) :
          ls = <<Ok(HeaderOf(section))>> \o body

\* from_file called on the lines of a text.
InitText ==
    /\ IsText(lines)
    /\ parsed = Parsed_new
    /\ sect_lines = get_lines_by_section("General", lines)
    /\ conf = Config_default
    /\ pc = "General"
    /\ i = 1
    /\ log = Log_new
    /\ inbounds = <<>>
    /\ outbounds = <<>>
    /\ rules = <<>>
    /\ result = None

SpecText == InitText /\ [][NextFile]_vars

\* ------------------------------------------------------------------ properties
Returned == pc = "done"

\* The outbound sequence of the internal config returned.
ReturnedOutbounds == unwrap(result).config.outbounds

ReturnedRules == unwrap(result).config.routing_rules

Tags(obs) == {obs[k].tag : k \in 1..Len(obs)}

IsFinal(r) == r.type_field = "FINAL"

\* C1 as stated: every FINAL rule whose target is the tag of a built outbound
\* has that outbound at index 0 of the returned sequence, whatever the other
\* rules are.
C1_FinalAlwaysFirst ==
    Returned =>
        \A k \in 1..Len(ext_rules) :
            (IsFinal(ext_rules[k]) /\ ext_rules[k].target \in Tags(ReturnedOutbounds))
                => ReturnedOutbounds[1].tag = ext_rules[k].target

\* C1 (amended): a FINAL rule whose target is the tag of a built outbound has
\* an outbound with that tag at index 0 of the returned sequence, provided no
\* later FINAL rule names the tag of a differently tagged outbound.
C1_LastFinalFirst ==
    Returned =>
        \A k \in 1..Len(ext_rules) :
            (/\ IsFinal(ext_rules[k])
             /\ ext_rules[k].target \in Tags(ReturnedOutbounds)
             /\ \A j \in (k + 1)..Len(ext_rules) :
                    IsFinal(ext_rules[j]) =>
                        \/ ext_rules[j].target \notin Tags(ReturnedOutbounds)
                        \/ ext_rules[j].target = ext_rules[k].target)
                => ReturnedOutbounds[1].tag = ext_rules[k].target

\* A FINAL rule among other rules moved an outbound that was not built first.
C1_Witness ==
    /\ Returned
    /\ Len(ext_rules) >= 2
    /\ Len(ReturnedOutbounds) >= 2
    /\ \E k \in 1..Len(ext_rules) :
          /\ IsFinal(ext_rules[k])
          /\ ReturnedOutbounds[1].tag = ext_rules[k].target
          /\ ext_proxies # <<>>
          /\ ext_proxies[1].tag # ext_rules[k].target

\* The chain outbounds precede every outbound named in their actor lists.
ChainsBeforeSubs(obs) ==
    \A c \in 1..Len(obs) :
        obs[c].protocol = "chain" =>
            \A k \in 1..Len(obs) :
                (\E a \in 1..Len(obs[c].settings.actors) : obs[c].settings.actors[a] = obs[k].tag)
                    => c < k

SubTags(obs) ==
    UNION { {obs[c].settings.actors[a] : a \in 1..Len(obs[c].settings.actors)} :
            c \in {k \in 1..Len(obs) : obs[k].protocol = "chain"} }

DistinctTags(obs) == \A j, k \in 1..Len(obs) : obs[j].tag = obs[k].tag => j = k

\* C2 as stated: in the returned sequence every chain outbound is at a lower
\* index than every sub-outbound named in its actor list, for every proxy
\* list and every rule list.
C2_ChainFirstAlways == Returned => ChainsBeforeSubs(ReturnedOutbounds)

\* C2 (amended): in the returned sequence every chain outbound is at a lower
\* index than every outbound named in its actor list, provided the outbounds
\* have pairwise distinct tags and no FINAL rule targets a tag of an actor list.
C2_ChainFirst ==
    (/\ Returned
     /\ DistinctTags(ReturnedOutbounds)
     /\ \A k \in 1..Len(ext_rules) :
            IsFinal(ext_rules[k]) => ext_rules[k].target \notin SubTags(ReturnedOutbounds))
        => ChainsBeforeSubs(ReturnedOutbounds)

\* A vmess / vless chain with two sub-outbounds was returned after a FINAL
\* rule moved an outbound of another proxy to the front.
C2_Witness ==
    /\ Returned
    /\ DistinctTags(ReturnedOutbounds)
    /\ \A k \in 1..Len(ext_rules) :
           IsFinal(ext_rules[k]) => ext_rules[k].target \notin SubTags(ReturnedOutbounds)
    /\ \E k \in 1..Len(ext_rules) :
           /\ IsFinal(ext_rules[k])
           /\ ReturnedOutbounds # <<>>
           /\ ReturnedOutbounds[1].tag = ext_rules[k].target
           /\ ext_proxies # <<>>
           /\ ext_proxies[1].tag # ext_rules[k].target
    /\ \E c \in 1..Len(ReturnedOutbounds) :
           /\ ReturnedOutbounds[c].protocol = "chain"
           /\ Len(ReturnedOutbounds[c].settings.actors) = 2
           /\ \E p \in 1..Len(ext_proxies) :
                 /\ ext_proxies[p].tag = ReturnedOutbounds[c].tag
                 /\ ext_proxies[p].protocol \in {"vmess", "vless"}

\* The proxy loop has just pushed the outbounds of proxy p: these outbounds.
Emitted == SubSeq(outbounds', Len(outbounds) + 1, Len(outbounds'))

\* The proxy loop completes an iteration on a proxy of one of these protocols.
ProxyIteration(protocols) ==
    /\ pc = "proxies"
    /\ i <= Len(ext_proxies)
    /\ ext_proxies[i].protocol \in protocols
    /\ i' = i + 1

\* C3: a vmess / vless proxy with tag T and role R emits a chain tagged T
\* whose actors are T_tls_xxx iff tls, then T_ws_xxx iff ws, then T_R_xxx,
\* followed by exactly the outbounds named by the actors, in that order.
C3_VxChain ==
    [][ ProxyIteration({"vmess", "vless"}) =>
          LET p == ext_proxies[i]
              actors == (IF p.tls = Some(TRUE) THEN <<p.tag \o "_tls_xxx">> ELSE <<>>)
                        \o (IF p.ws = Some(TRUE) THEN <<p.tag \o "_ws_xxx">> ELSE <<>>)
                        \o <<p.tag \o "_" \o p.protocol \o "_xxx">>
              kinds == (IF p.tls = Some(TRUE) THEN <<"tls">> ELSE <<>>)
                       \o (IF p.ws = Some(TRUE) THEN <<"ws">> ELSE <<>>)
                       \o <<p.protocol>>
          IN  /\ Len(Emitted) = 1 + Len(actors)
              /\ Emitted[1].tag = p.tag
              /\ Emitted[1].protocol = "chain"
              /\ Emitted[1].settings.actors = actors
              /\ \A k \in 1..Len(actors) :
                    /\ Emitted[k + 1].tag = actors[k]
                    /\ Emitted[k + 1].protocol = kinds[k]
      ]_vars

\* A vmess / vless proxy with tls and ws both true has just been translated.
C3_Witness ==
    /\ pc = "proxies"
    /\ i > 1
    /\ ext_proxies[i - 1].protocol \in {"vmess", "vless"}
    /\ ext_proxies[i - 1].tls = Some(TRUE)
    /\ ext_proxies[i - 1].ws = Some(TRUE)
    /\ Len(outbounds) >= 4
    /\ outbounds[Len(outbounds) - 3].settings = 
          [actors |-> <<outbounds[Len(outbounds) - 2].tag, outbounds[Len(outbounds) - 1].tag,
                        outbounds[Len(outbounds)].tag>>]

\* C4: a trojan proxy with tag T emits exactly three outbounds, chain (tag
\* T, actors [T_tls_xxx, T_trojan_xxx]), tls (T_tls_xxx), trojan
\* (T_trojan_xxx), whatever its tls and ws flags are.
C4_TrojanThree ==
    [][ ProxyIteration({"trojan"}) =>
          LET p == ext_proxies[i]
          IN  /\ Len(Emitted) = 3
              /\ Emitted[1].protocol = "chain"
              /\ Emitted[1].tag = p.tag
              /\ Emitted[1].settings.actors = <<p.tag \o "_tls_xxx", p.tag \o "_trojan_xxx">>
              /\ Emitted[2].protocol = "tls"
              /\ Emitted[2].tag = p.tag \o "_tls_xxx"
              /\ Emitted[3].protocol = "trojan"
              /\ Emitted[3].tag = p.tag \o "_trojan_xxx"
      ]_vars

\* A trojan proxy whose tls flag is false has just been translated.
C4_Witness ==
    /\ pc = "proxies"
    /\ i > 1
    /\ ext_proxies[i - 1].protocol = "trojan"
    /\ ext_proxies[i - 1].tls = Some(FALSE)
    /\ Len(outbounds) >= 3
    /\ outbounds[Len(outbounds)].protocol = "trojan"
    /\ outbounds[Len(outbounds) - 1].protocol = "tls"
    /\ outbounds[Len(outbounds) - 2].protocol = "chain"

LacksMandatory(p) ==
    /\ p.protocol \in {"vmess", "vless"}
    /\ (is_none(p.address) \/ is_none(p.port) \/ is_none(p.username))

Terminated == pc \in {"done", "err", "panic"}

\* C5: when some vmess / vless proxy lacks an address, a port or a username,
\* to_internal ends with a returned error and never with an internal config,
\* wherever the proxy stands in the list.
C5_MissingFieldErr ==
    /\ (Returned => \A k \in 1..Len(ext_proxies) : ~LacksMandatory(ext_proxies[k]))
    /\ ((Terminated /\ \E k \in 1..Len(ext_proxies) : LacksMandatory(ext_proxies[k]))
            => /\ pc = "err"
               /\ is_some(result)
               /\ unwrap(result).ok = FALSE)
    /\ ((~Terminated /\ \E k \in 1..Len(ext_proxies) : LacksMandatory(ext_proxies[k]))
            => pc \in {"to_internal", "proxies"})

\* The error was returned for a proxy that is not the first of the list,
\* after outbounds had been built for the proxies before it.
C5_Witness ==
    /\ pc = "err"
    /\ i >= 2
    /\ LacksMandatory(ext_proxies[i])
    /\ outbounds # <<>>
    /\ result = Some([ok |-> FALSE, err |-> "invalid " \o ext_proxies[i].protocol \o " outbound settings"])

GroupProtocols == {"tryall", "random", "failover"}

\* How many elements of a sequence satisfy a test.
Count(seq, Test(_)) == Cardinality({k \in 1..Len(seq) : Test(seq[k])})

\* The outbounds that the proxy loop cannot have produced.
IsGroupOutbound(o) ==
    o.protocol \notin {"direct", "drop", "shadowsocks", "chain", "tls", "ws", "trojan",
                       "vmess", "vless"}

\* C7 as stated: every proxy group becomes exactly one outbound with the
\* group's tag and bind "0.0.0.0", and there are as many group outbounds as
\* groups.
C7_EveryGroupOneOutbound ==
    Returned =>
        /\ Count(ReturnedOutbounds, IsGroupOutbound) = Len(ext_proxy_groups)
        /\ \A g \in 1..Len(ext_proxy_groups) :
              LET SameTag(x) == x.tag = ext_proxy_groups[g].tag
                  ItsOutbound(o) == IsGroupOutbound(o) /\ SameTag(o) /\ o.bind = "0.0.0.0"
              IN  Count(ReturnedOutbounds, ItsOutbound) = Count(ext_proxy_groups, SameTag)

HasGroupProtocol(x) == x.protocol \in GroupProtocols

\* C7 (amended): every proxy group whose protocol is tryall, random or
\* failover becomes exactly one outbound with the group's tag, the group's
\* protocol and bind "0.0.0.0"; a group of any other protocol becomes no
\* outbound, so the group outbounds are as many as the groups of these three
\* protocols.
C7_KnownGroupOneOutbound ==
    Returned =>
        /\ Count(ReturnedOutbounds, IsGroupOutbound) = Count(ext_proxy_groups, HasGroupProtocol)
        /\ \A g \in 1..Len(ext_proxy_groups) :
              LET Same(x) == /\ x.tag = ext_proxy_groups[g].tag
                             /\ x.protocol = ext_proxy_groups[g].protocol
                  ItsOutbound(o) == IsGroupOutbound(o) /\ Same(o) /\ o.bind = "0.0.0.0"
              IN  Count(ReturnedOutbounds, ItsOutbound) =
                      IF HasGroupProtocol(ext_proxy_groups[g])
                      THEN Count(ext_proxy_groups, Same) ELSE 0

\* Two groups, one of them of an unknown protocol, were translated next to
\* a proxy that shares the tag of the other group.
C7_Witness ==
    /\ Returned
    /\ Len(ext_proxy_groups) = 2
    /\ Count(ext_proxy_groups, HasGroupProtocol) = 1
    /\ Count(ReturnedOutbounds, IsGroupOutbound) = 1
    /\ \E k \in 1..Len(ReturnedOutbounds) :
          /\ IsGroupOutbound(ReturnedOutbounds[k])
          /\ ReturnedOutbounds[k].bind = "0.0.0.0"
          /\ \E j \in 1..Len(ReturnedOutbounds) :
                j # k /\ ReturnedOutbounds[j].tag = ReturnedOutbounds[k].tag

\* The rule loop completes an iteration on an EXTERNAL rule whose rule set
\* fails to load.
FailedExternalIteration ==
    /\ pc = "rules"
    /\ i <= Len(ext_rules)
    /\ ext_rules[i].type_field = "EXTERNAL"
    /\ is_some(ext_rules[i].filter)
    /\ ~add_external_rule(RoutingRule_new, unwrap(ext_rules[i].filter)).ok
    /\ i' = i + 1

\* C8: when the expansion of an EXTERNAL rule fails no routing rule is
\* appended for it, the routing rules built so far are unchanged, and
\* to_internal goes on to return a config.
C8_FailedExternalSkipped ==
    [][ FailedExternalIteration => (rules' = rules /\ pc' = "rules") ]_vars

\* The rule loop completes an iteration on a FINAL rule.
FinalIteration ==
    /\ pc = "rules"
    /\ i <= Len(ext_rules)
    /\ IsFinal(ext_rules[i])
    /\ i' = i + 1

\* C9: a FINAL rule appends no routing rule and changes nothing but the
\* position of one outbound tagged with its target, which goes to index 0
\* while the others keep their relative order; with no such outbound the
\* sequence is unchanged.
C9_FinalFrame ==
    [][ FinalIteration =>
          /\ UNCHANGED <<rules, conf, log, inbounds, result, pc>>
          /\ IF ext_rules[i].target \in Tags(outbounds)
             THEN \E k \in 1..Len(outbounds) :
                     /\ outbounds[k].tag = ext_rules[i].target
                     /\ Len(outbounds') = Len(outbounds)
                     /\ Head(outbounds') = outbounds[k]
                     /\ Tail(outbounds') = SubSeq(outbounds, 1, k - 1)
                                            \o SubSeq(outbounds, k + 1, Len(outbounds))
             ELSE outbounds' = outbounds
      ]_vars

\* A FINAL rule has just moved the outbound at the fourth place of
\* [a, a_tls_xxx, a_trojan_xxx, b] to the front, the other three keeping
\* their order.
C9_Witness ==
    /\ pc = "rules"
    /\ i > 1
    /\ IsFinal(ext_rules[i - 1])
    /\ Len(outbounds) >= 4
    /\ outbounds[1].tag = ext_rules[i - 1].target
    /\ outbounds[1].protocol \in GroupProtocols
    /\ Len(ext_proxies) = 1
    /\ SubSeq(outbounds, 2, 4) = ProxyOutbounds(ext_proxies[1]).obs
    /\ rules = <<>>

HasRoutingRule(r) == ~IsFinal(r) /\ is_some(r.filter)

\* C10: the i-th routing rule returned carries the target of the i-th input
\* rule that is not FINAL and has a filter; there are as many routing rules
\* as such input rules.
C10_RulesInFileOrder ==
    Returned =>
        LET kept == SelectSeq(ext_rules, HasRoutingRule)
        IN  /\ Len(ReturnedRules) = Len(kept)
            /\ \A k \in 1..Len(kept) : ReturnedRules[k].target_tag = kept[k].target

\* Two routing rules with different targets were returned from three input
\* rules, one of which produced no routing rule.
C10_Witness ==
    /\ Returned
    /\ Len(ext_rules) = 3
    /\ Len(ReturnedRules) = 2
    /\ ReturnedRules[1].target_tag # ReturnedRules[2].target_tag
    /\ ~HasRoutingRule(ext_rules[2])

\* ------------------------------------------------------------------ C6
\* from_lines has returned: the Config it built is the one held in conf.
FromLinesReturned == pc \notin FromLinesStages

\* The section that line k of a file belongs to.
SectionAt(ls, k) == SectionScan("", ls, k - 1).curr_sect

\* Line k as the section loops receive it.
EntryText(ls, k) == Trim(remove_comments(unwrap(ls[k])))

\* Line k is handed to the loop of its section.
IsEntryLine(ls, k) ==
    /\ is_some(ls[k])
    /\ is_none(get_section(remove_comments(unwrap(ls[k]))))
    /\ Len(EntryText(ls, k)) > 0

DecodedAt(ls, k) ==
    CASE SectionAt(ls, k) = "Proxy" -> ParseProxyLine(EntryText(ls, k))
      [] SectionAt(ls, k) = "Proxy Group" -> ParseProxyGroupLine(EntryText(ls, k))
      [] SectionAt(ls, k) = "Rule" -> ParseRuleLine(EntryText(ls, k))

\* Line k is a line of the Proxy, Proxy Group or Rule section that fails to decode.
FailsToDecode(ls, k) ==
    /\ IsEntryLine(ls, k)
    /\ SectionAt(ls, k) \in {"Proxy", "Proxy Group", "Rule"}
    /\ is_none(DecodedAt(ls, k))

DecodesIn(ls, k, section) ==
    /\ IsEntryLine(ls, k)
    /\ SectionAt(ls, k) = section
    /\ is_some(DecodedAt(ls, k))

\* The entries of one section, in file order, decoded line by line.
DecodedEntries(ls, section) ==
    LET Keep(k) == DecodesIn(ls, k, section)
        ks == SelectSeq([k \in 1..Len(ls) |-> k], Keep)
    IN  [j \in 1..Len(ks) |-> unwrap(DecodedAt(ls, ks[j]))]

\* The General after the first n lines of the General section.
RECURSIVE GeneralAfter(_, _)
GeneralAfter(sl, n) ==
    IF n = 0 THEN General_default ELSE GeneralLineStep(GeneralAfter(sl, n - 1), sl[n])

RECURSIVE ProxiesAfter(_, _)
ProxiesAfter(sl, n) ==
    IF n = 0 THEN <<>> ELSE ProxyLineStep(ProxiesAfter(sl, n - 1), sl[n])

RECURSIVE ProxyGroupsAfter(_, _)
ProxyGroupsAfter(sl, n) ==
    IF n = 0 THEN <<>> ELSE ProxyGroupLineStep(ProxyGroupsAfter(sl, n - 1), sl[n])

RECURSIVE RulesAfter(_, _)
RulesAfter(sl, n) ==
    IF n = 0 THEN <<>> ELSE RuleLineStep(RulesAfter(sl, n - 1), sl[n])

\* The Config that from_lines returns for the lines ls.
FromLines(ls) ==
    LET gl == get_lines_by_section("General", ls)
        pl == get_lines_by_section("Proxy", ls)
        ql == get_lines_by_section("Proxy Group", ls)
        rl == get_lines_by_section("Rule", ls)
    IN  ConfigOf([general |-> GeneralAfter(gl, Len(gl)),
                  proxies |-> ProxiesAfter(pl, Len(pl)),
                  proxy_groups |-> ProxyGroupsAfter(ql, Len(ql)),
                  rules |-> RulesAfter(rl, Len(rl))])

\* C6: from_lines returns a Config for every file: in every state of its
\* loops the index is at a line of the section, whose step is then possible,
\* or one past the last, where the loop is left and after the Rule loop
\* Ok(config) is returned; there is no step that fails. Once it has
\* returned, the proxies, proxy groups and rules of the Config are exactly
\* the entries of the lines that decode, in file order, so a line of the
\* Proxy, Proxy Group or Rule section that fails to decode contributes none;
\* and for each such failing line the Config equals the one from_lines
\* returns for the file without that line.
C6_FailingLineDropped ==
    /\ pc \in FromLinesStages =>
         /\ sect_lines = get_lines_by_section(pc, lines)
         /\ i \in 1..(Len(sect_lines) + 1)
         /\ result = None
    /\ FromLinesReturned =>
         /\ conf = FromLines(lines)
         /\ unwrap(conf.proxy) = DecodedEntries(lines, "Proxy")
         /\ unwrap(conf.proxy_group) = DecodedEntries(lines, "Proxy Group")
         /\ unwrap(conf.rule) = DecodedEntries(lines, "Rule")
         /\ \A k \in 1..Len(lines) :
              FailsToDecode(lines, k) => conf = FromLines(RemoveAt(lines, k))

\* from_lines has returned for a file in which a failing line stands between
\* two lines of the same section that decode.
C6_Witness ==
    /\ FromLinesReturned
    /\ \E j, k, l \in 1..Len(lines) :
         /\ j < k /\ k < l
         /\ FailsToDecode(lines, k)
         /\ \E section \in {"Proxy", "Proxy Group", "Rule"} :
              /\ DecodesIn(lines, j, section)
              /\ DecodesIn(lines, l, section)
              /\ SectionAt(lines, k) = section
              /\ Len(DecodedEntries(lines, section)) = 2

\* ------------------------------------------------------------------ C11
\* The lines of ls that the loop of a section receives, as indexes.
EntryLinesOf(ls, section) ==
    {k \in 1..Len(ls) : IsEntryLine(ls, k) /\ SectionAt(ls, k) = section}

\* The comma-separated fields of a line, trimmed, empty ones included.
CommaFields(text) == LET parts == Split(text, ",") IN [k \in 1..Len(parts) |-> Trim(parts[k])]

\* The fields that are not empty.
UsableFields(text) == LET NonEmpty(x) == x # <<>> IN SelectSeq(CommaFields(text), NonEmpty)

\* The claim as stated: FINAL with exactly two comma-separated fields, or
\* another type with at least three.
RuleShapeAsStated(text) ==
    LET fields == CommaFields(text)
    IN  \/ Join(fields[1]) = "FINAL" /\ Len(fields) = 2
        \/ Join(fields[1]) # "FINAL" /\ Len(fields) >= 3

\* FINAL with at least two non-empty fields, or another type with at least
\* three non-empty fields.
RuleShape(text) ==
    LET fields == UsableFields(text)
    IN  /\ fields # <<>>
        /\ \/ Join(fields[1]) = "FINAL" /\ Len(fields) >= 2
           \/ Join(fields[1]) # "FINAL" /\ Len(fields) >= 3

\* C11 as stated: once from_lines has returned, the rules of the Config are
\* the decodings of exactly the Rule lines that are FINAL with exactly two
\* comma-separated fields or not FINAL with at least three.
C11_RuleIffExactFields ==
    FromLinesReturned =>
      \A k \in EntryLinesOf(lines, "Rule") :
        is_some(ParseRuleLine(EntryText(lines, k))) <=> RuleShapeAsStated(EntryText(lines, k))

\* C11 amended: once from_lines has returned, a line of the Rule section has
\* been decoded into a Rule if and only if, counting the fields that are not
\* empty after trimming, it is FINAL with at least two fields or not FINAL
\* with at least three; the Config holds one rule per such line, in file
\* order, with the first field as type and the second (FINAL) or third
\* (other types) as target.
C11_RuleIffEnoughFields ==
    FromLinesReturned =>
      LET Shaped(k) == k \in EntryLinesOf(lines, "Rule") /\ RuleShape(EntryText(lines, k))
          ks == SelectSeq([k \in 1..Len(lines) |-> k], Shaped)
          rule == unwrap(conf.rule)
      IN  /\ \A k \in EntryLinesOf(lines, "Rule") :
               is_some(ParseRuleLine(EntryText(lines, k))) <=> RuleShape(EntryText(lines, k))
          /\ Len(rule) = Len(ks)
          /\ \A j \in 1..Len(ks) :
               LET fields == UsableFields(EntryText(lines, ks[j]))
               IN  /\ rule[j].type_field = Join(fields[1])
                   /\ rule[j].target =
                        Join(fields[IF rule[j].type_field = "FINAL" THEN 2 ELSE 3])

\* from_lines has returned for a text whose Rule section holds a FINAL line
\* of three fields, which was decoded, and a line of another type with two
\* fields, which was dropped.
C11_Witness ==
    /\ FromLinesReturned
    /\ Len(unwrap(conf.rule)) = 1
    /\ \E j, k \in EntryLinesOf(lines, "Rule") :
         /\ Len(UsableFields(EntryText(lines, j))) = 3
         /\ Join(UsableFields(EntryText(lines, j))[1]) = "FINAL"
         /\ Len(UsableFields(EntryText(lines, k))) = 2
         /\ Join(UsableFields(EntryText(lines, k))[1]) = "IP-CIDR"

\* ------------------------------------------------------------------ C12
\* The inbounds have been built from conf.
InboundsBuilt == pc \in {"proxies", "groups", "rules", "done", "err", "panic"}

InboundsOf(protocol) ==
    LET Is(x) == x.protocol = protocol IN SelectSeq(inbounds, Is)

\* The setting of General named by a key, absent when there is no General.
GeneralHas(key) == is_some(conf.general) /\ is_some(unwrap(conf.general)[key])

\* C12: once to_internal has built the inbounds (and in the list it returns),
\* there is an http inbound iff General has interface and port, a socks
\* inbound iff it has socks_interface and socks_port, a tun inbound iff it
\* has tun_fd or a tun block; with both tun_fd and a tun block the tun
\* settings carry the given fd and the name, address, netmask, gateway and
\* mtu are those of fresh settings, not the block's; with the block alone
\* and no mtu in it the mtu is 1500.
C12_Inbounds ==
    InboundsBuilt =>
      /\ Returned => unwrap(result).config.inbounds = inbounds
      /\ Len(InboundsOf("http")) = IF GeneralHas("interface") /\ GeneralHas("port") THEN 1 ELSE 0
      /\ Len(InboundsOf("socks")) =
           IF GeneralHas("socks_interface") /\ GeneralHas("socks_port") THEN 1 ELSE 0
      /\ Len(InboundsOf("tun")) = IF GeneralHas("tun_fd") \/ GeneralHas("tun") THEN 1 ELSE 0
      /\ Len(inbounds) = Len(InboundsOf("http")) + Len(InboundsOf("socks")) + Len(InboundsOf("tun"))
      /\ GeneralHas("tun_fd") /\ GeneralHas("tun") =>
           LET settings == InboundsOf("tun")[1].settings
           IN  /\ settings.fd = unwrap(unwrap(conf.general).tun_fd)
               /\ settings.name = "" /\ settings.address = "" /\ settings.netmask = ""
               /\ settings.gateway = "" /\ settings.mtu = 0
      /\ ~GeneralHas("tun_fd") /\ GeneralHas("tun") /\ is_none(unwrap(unwrap(conf.general).tun).mtu) =>
           InboundsOf("tun")[1].settings.mtu = 1500

\* to_internal has returned for a General with interface and port, without
\* socks_port, and with both tun_fd and a named tun block.
C12_Witness ==
    /\ Returned
    /\ GeneralHas("interface") /\ GeneralHas("port")
    /\ GeneralHas("socks_interface") /\ ~GeneralHas("socks_port")
    /\ GeneralHas("tun_fd") /\ GeneralHas("tun")
    /\ is_some(unwrap(unwrap(conf.general).tun).name)
    /\ Len(unwrap(result).config.inbounds) = 2

\* ------------------------------------------------------------------ C13
\* The lines of the General section of ls that are `key = ...` directives
\* for the given key, as indexes.
DirectivesOf(ls, key) ==
    {k \in EntryLinesOf(ls, "General") :
       LET parts == Split(EntryText(ls, k), "=")
       IN  Len(parts) = 2 /\ Join(Trim(parts[1])) = key}

Max(S) == CHOOSE x \in S : \A y \in S : y <= x

\* The text after the `=` of the last directive for the key.
LastValueOf(ls, key) == Split(EntryText(ls, Max(DirectivesOf(ls, key))), "=")[2]

\* The DNS of the internal config that to_internal returned.
ReturnedDns == unwrap(result).config.dns

\* C13: for a text translated by from_lines and to_internal, the DNS servers
\* are ["114.114.114.114", "8.8.8.8"] when a dns-server directive is present
\* and lists no usable server, the listed servers when it lists some, and
\* none when there is no dns-server directive; the bind is "0.0.0.0" when
\* there is no dns-interface directive.
C13_DnsDefaults ==
    Returned =>
      /\ ReturnedDns.servers =
           IF DirectivesOf(lines, "dns-server") = {} THEN <<>>
           ELSE LET servers == Strings(UsableFields(LastValueOf(lines, "dns-server")))
                IN  IF servers = <<>> THEN <<"114.114.114.114", "8.8.8.8">> ELSE servers
      /\ DirectivesOf(lines, "dns-interface") = {} => ReturnedDns.bind = "0.0.0.0"

\* ------------------------------------------------------------------ C14
\* The items after the `=` of a Proxy or Proxy Group line: its non-empty
\* comma-separated fields, the protocol first.
LineItems(text) == UsableFields(SplitN2(text, "=")[2])

\* The texts that the `key=value` items of a line give to a key, in order.
ValueTextsOf(text, key) ==
    LET items == LineItems(text)
        IsKey(item) == LET parts == Split(item, "=")
                       IN  /\ Len(parts) = 2
                           /\ Join(Trim(parts[1])) = key
                           /\ Trim(parts[2]) # <<>>
        hits == SelectSeq(items, IsKey)
    IN  [k \in 1..Len(hits) |-> Trim(Split(hits[k], "=")[2])]

\* The same as strings.
ValuesOf(text, key) == Strings(ValueTextsOf(text, key))

\* The lines of the Proxy Group section that were decoded into a group of a
\* protocol that to_internal translates, as a sequence of indexes.
GroupLines ==
    LET Kept(k) == /\ DecodesIn(lines, k, "Proxy Group")
                   /\ unwrap(DecodedAt(lines, k)).protocol \in GroupProtocols
    IN  SelectSeq([k \in 1..Len(lines) |-> k], Kept)

\* The outbounds of the groups in the returned config.
ReturnedGroupOutbounds == SelectSeq(ReturnedOutbounds, IsGroupOutbound)

\* C14: in the config returned for a text, the outbound of a url-test line
\* is a failover outbound whose failover setting is false, whatever failover
\* item the line carries and wherever it stands; the outbound of a fallback
\* line is a failover outbound whose failover setting is the one the line
\* gives (true or false), true when the line gives none.
C14_AliasGroups ==
    Returned =>
      /\ Len(ReturnedGroupOutbounds) = Len(GroupLines)
      /\ \A j \in 1..Len(GroupLines) :
           LET text == EntryText(lines, GroupLines[j])
               given == ValuesOf(text, "failover")
               o == ReturnedGroupOutbounds[j]
           IN  /\ Join(LineItems(text)[1]) = "url-test" =>
                    o.protocol = "failover" /\ o.settings.failover = FALSE
               /\ Join(LineItems(text)[1]) = "fallback" =>
                    /\ o.protocol = "failover"
                    /\ given = <<>> => o.settings.failover = TRUE
                    /\ given # <<>> /\ given[Len(given)] \in {"true", "false"} =>
                         o.settings.failover = (given[Len(given)] = "true")

\* A text with a url-test line that carries failover=true ahead of its
\* actor and a fallback line that carries failover=false was translated.
C14_Witness ==
    /\ Returned
    /\ Len(GroupLines) = 2
    /\ \E j, l \in 1..2 :
         /\ Join(LineItems(EntryText(lines, GroupLines[j]))[1]) = "url-test"
         /\ ValuesOf(EntryText(lines, GroupLines[j]), "failover") = <<"true">>
         /\ Join(LineItems(EntryText(lines, GroupLines[j]))[2]) # "a"
         /\ ReturnedGroupOutbounds[j].settings.failover = FALSE
         /\ Join(LineItems(EntryText(lines, GroupLines[l]))[1]) = "fallback"
         /\ ValuesOf(EntryText(lines, GroupLines[l]), "failover") = <<"false">>
         /\ ReturnedGroupOutbounds[l].settings.failover = FALSE

\* ------------------------------------------------------------------ C15
IsI32Literal(text) == is_some(ParseI32(text))

IsU16Literal(text) == is_some(ParseU16(text))

IsBoolLiteral(text) == Join(text) \in {"true", "false"}

\* The last value a line gives to a key is no literal of the type.
Malformed(text, key, IsLiteral(_)) ==
    LET given == ValueTextsOf(text, key)
    IN  given # <<>> /\ ~IsLiteral(given[Len(given)])

\* The last directive of the General section for a key has a value that is
\* no literal of the type.
MalformedGeneral(key, IsLiteral(_)) ==
    /\ DirectivesOf(lines, key) # {}
    /\ ~IsLiteral(Trim(LastValueOf(lines, key)))

\* The lines of the Proxy section that were decoded, as a sequence of indexes.
ProxyLinesDecoded ==
    LET Kept(k) == DecodesIn(lines, k, "Proxy")
    IN  SelectSeq([k \in 1..Len(lines) |-> k], Kept)

\* C15: in the config returned for a text, a typed setting whose value is no
\* valid literal of its type has its default: health_check and failover
\* true, check_interval 300, fail_timeout 4, delay_base 0 for a group; no
\* tls or ws layer for a proxy; no http inbound for a malformed port, no tun
\* inbound for a malformed tun-fd; and the translation does not fail.
C15_MalformedIsDefault ==
    /\ pc # "panic"
    /\ Returned =>
         /\ \A j \in 1..Len(GroupLines) :
              LET text == EntryText(lines, GroupLines[j])
                  o == ReturnedGroupOutbounds[j]
              IN  /\ Join(LineItems(text)[1]) = "failover" =>
                       /\ Malformed(text, "health-check", IsBoolLiteral) =>
                            o.settings.health_check = TRUE
                       /\ Malformed(text, "failover", IsBoolLiteral) =>
                            o.settings.failover = TRUE
                       /\ Malformed(text, "check-interval", IsI32Literal) =>
                            o.settings.check_interval = AsU32(300)
                       /\ Malformed(text, "fail-timeout", IsI32Literal) =>
                            o.settings.fail_timeout = AsU32(4)
                  /\ Join(LineItems(text)[1]) = "tryall" =>
                       (Malformed(text, "delay-base", IsI32Literal) =>
                          o.settings.delay_base = AsU32(0))
         /\ \A j \in 1..Len(ProxyLinesDecoded) :
              LET text == EntryText(lines, ProxyLinesDecoded[j])
                  IsLayer(protocol) == \E k \in 1..Len(ReturnedOutbounds) :
                                          ReturnedOutbounds[k].protocol = protocol
              IN  /\ Len(ProxyLinesDecoded) = 1 /\ Malformed(text, "tls", IsBoolLiteral) =>
                       ~IsLayer("tls")
                  /\ Len(ProxyLinesDecoded) = 1 /\ Malformed(text, "ws", IsBoolLiteral) =>
                       ~IsLayer("ws")
         /\ MalformedGeneral("port", IsU16Literal) => InboundsOf("http") = <<>>
         /\ MalformedGeneral("tun-fd", IsI32Literal) => InboundsOf("tun") = <<>>

\* ------------------------------------------------------------------ C16
\* The texts that the directives of the General section with exactly one
\* `=`, the given key and a non-empty value give to the key, in file order.
GeneralTextsOf(key) ==
    LET Valid(k) == /\ k \in DirectivesOf(lines, key)
                    /\ Trim(Split(EntryText(lines, k), "=")[2]) # <<>>
        ks == SelectSeq([k \in 1..Len(lines) |-> k], Valid)
    IN  [j \in 1..Len(ks) |-> Trim(Split(EntryText(lines, ks[j]), "=")[2])]

Last(seq) == seq[Len(seq)]

\* The value of a string field after the items that apply: the last one, or
\* the value the field had before.
StringAfter(texts, before) == IF texts = <<>> THEN before ELSE Some(Join(Last(texts)))

BoolAfter(texts, before) == IF texts = <<>> THEN before ELSE Some(Join(Last(texts)) = "true")

\* C16: in the Config that from_lines returns, every field set from
\* key=value items has the value given by the last item for its key with
\* exactly one `=`, a non-empty key and a non-empty value, and the value it
\* had before (that of a fresh General, Proxy or ProxyGroup) when there is
\* no such item: items with no or several `=`, an empty key or an empty
\* value change nothing, in the General section and in the parameter lists
\* of Proxy and Proxy Group lines.
C16_OnlyWellFormedItems ==
    FromLinesReturned =>
      /\ LET general == unwrap(conf.general)
         IN  /\ general.loglevel = StringAfter(GeneralTextsOf("loglevel"), None)
             /\ general.interface = StringAfter(GeneralTextsOf("interface"), None)
             /\ general.dns_interface = StringAfter(GeneralTextsOf("dns-interface"), None)
             /\ general.port = IF GeneralTextsOf("port") = <<>> THEN None
                               ELSE ParseU16(Last(GeneralTextsOf("port")))
      /\ \A j \in 1..Len(ProxyLinesDecoded) :
           LET text == EntryText(lines, ProxyLinesDecoded[j])
               proxy == unwrap(conf.proxy)[j]
           IN  /\ proxy.password = StringAfter(ValueTextsOf(text, "password"), Proxy_default.password)
               /\ proxy.username = StringAfter(ValueTextsOf(text, "username"), Proxy_default.username)
               /\ proxy.sni = StringAfter(ValueTextsOf(text, "sni"), Proxy_default.sni)
               /\ proxy.encrypt_method =
                    StringAfter(ValueTextsOf(text, "encrypt-method"), Proxy_default.encrypt_method)
               /\ proxy.tls = BoolAfter(ValueTextsOf(text, "tls"), Proxy_default.tls)
               /\ proxy.ws = BoolAfter(ValueTextsOf(text, "ws"), Proxy_default.ws)
      /\ \A k \in 1..Len(lines) :
           DecodesIn(lines, k, "Proxy Group") =>
             LET text == EntryText(lines, k)
                 group == unwrap(DecodedAt(lines, k))
                 IntAfter(texts, before) == IF texts = <<>> THEN before ELSE ParseI32(Last(texts))
             IN  /\ group.check_interval =
                      IntAfter(ValueTextsOf(text, "check-interval"), ProxyGroup_default.check_interval)
                 /\ group.fail_timeout =
                      IntAfter(ValueTextsOf(text, "fail-timeout"), ProxyGroup_default.fail_timeout)
                 /\ group.health_check =
                      BoolAfter(ValueTextsOf(text, "health-check"), ProxyGroup_default.health_check)
                 /\ group.protocol # "url-test" /\ Join(LineItems(text)[1]) # "url-test" =>
                      group.failover =
                        BoolAfter(ValueTextsOf(text, "failover"), ProxyGroup_default.failover)

\* ------------------------------------------------------------------ C17
\* The lines that a section loop receives when lines are normalized by
\* Normal and headers are recognized by Header: the normalized, non-empty,
\* non-header readable lines whose last preceding header names the section.
LinesUnder(section, ls, Normal(_), Header(_)) ==
    LET IsHeader(k) == is_some(ls[k]) /\ is_some(Header(Normal(unwrap(ls[k]))))
        SectOf(k) == LET hs == {h \in 1..(k - 1) : IsHeader(h)}
                     IN  IF hs = {} THEN "" ELSE unwrap(Header(Normal(unwrap(ls[Max(hs)]))))
        Kept(k) == /\ is_some(ls[k])
                   /\ ~IsHeader(k)
                   /\ SectOf(k) = section
                   /\ Trim(Normal(unwrap(ls[k]))) # <<>>
        ks == SelectSeq([k \in 1..Len(ls) |-> k], Kept)
    IN  [j \in 1..Len(ks) |-> Trim(Normal(unwrap(ls[ks[j]])))]

\* Everything from the first `#` to the end of the line removed.
StripToEnd(text) ==
    IF Contains(text, "#") THEN SubSeq(text, 1, IndexOf(text, "#") - 1) ELSE text

\* C17: the lines a section decoder receives are the lines of its section
\* with everything from the first `#` to the end of the line removed and the
\* surrounding whitespace trimmed, so nothing that follows the first `#` of
\* a line reaches a decoder.
C17_CommentToEndOfLine ==
    pc \in FromLinesStages => sect_lines = LinesUnder(pc, lines, StripToEnd, get_section)

\* ------------------------------------------------------------------ C18
\* The name of a header `[ name ]`, whitespace allowed before, after and
\* inside the brackets on either side of the name.
SectionNamed(text) ==
    LET t == Trim(text)
    IN  IF Len(t) >= 2 /\ Head(t) = "[" /\ IndexOf(t, "]") = Len(t)
        THEN Some(Join(Trim(SubSeq(t, 2, Len(t) - 1))))
        ELSE None

\* C18: a line `[ name ]`, whatever whitespace surrounds the brackets and
\* the name, makes name the section of the following lines up to the next
\* header, and the lines a section loop receives are, in file order, exactly
\* the non-empty normalized lines of its section, headers excluded.
C18_HeaderSwitchesSection ==
    pc \in FromLinesStages => sect_lines = LinesUnder(pc, lines, remove_comments, SectionNamed)

\* ------------------------------------------------------------------ C19
\* The FINAL rules whose target is the tag of an outbound, as indexes. The
\* rule loop adds and removes no outbound, so the tags are those of the
\* moment each rule is processed.
MatchingFinals ==
    {k \in 1..Len(ext_rules) :
       IsFinal(ext_rules[k]) /\ ext_rules[k].target \in Tags(outbounds)}

\* An iteration of the rule loop.
RuleIteration == pc = "rules" /\ i <= Len(ext_rules) /\ i' = i + 1

\* C19: once to_internal has returned, if some FINAL rule's target was the
\* tag of an outbound, index 0 of the returned outbounds holds the outbound
\* matched by the last such rule: it has that rule's target as tag, and in
\* the iteration of every matching FINAL rule the outbound moved to index 0
\* is the one at the highest index among those with the target tag; an
\* iteration on any other rule moves nothing.
C19_LastFinalWins ==
    /\ [](Returned =>
            /\ ReturnedOutbounds = outbounds
            /\ MatchingFinals # {} =>
                 ReturnedOutbounds[1].tag = ext_rules[Max(MatchingFinals)].target)
    /\ [][RuleIteration =>
            LET hits == {k \in 1..Len(outbounds) : outbounds[k].tag = ext_rules[i].target}
            IN  IF IsFinal(ext_rules[i]) /\ hits # {}
                THEN /\ outbounds'[1] = outbounds[Max(hits)]
                     /\ Len(outbounds') = Len(outbounds)
                ELSE outbounds' = outbounds]_vars

\* to_internal has returned after two FINAL rules that matched outbounds of
\* different tags; index 0 holds the one named by the second.
C19_Witness ==
    /\ Returned
    /\ \E j, k \in MatchingFinals :
         /\ j < k
         /\ k = Max(MatchingFinals)
         /\ ext_rules[j].target # ext_rules[k].target
         /\ ReturnedOutbounds[1].tag = ext_rules[k].target

\* ------------------------------------------------------------------ C20
\* A vmess or vless proxy without a username.
LacksUsername(p) == p.protocol \in {"vmess", "vless"} /\ is_none(p.username)

RECURSIVE NoLeadingZeros(_)
NoLeadingZeros(ds) ==
    IF Len(ds) > 1 /\ Head(ds) = "0" THEN NoLeadingZeros(Tail(ds)) ELSE ds

\* The number written by at most nine decimal digits.
RECURSIVE Decimal(_)
Decimal(ds) ==
    IF ds = <<>> THEN 0
    ELSE Decimal(SubSeq(ds, 1, Len(ds) - 1)) * 10 + Digit[ds[Len(ds)]]

\* The integer a text writes in decimal, with an optional sign, when it is
\* one of the signed 32-bit numbers -2147483648..2147483647; None otherwise.
SignedValue(text) ==
    IF text = <<>> THEN None
    ELSE LET negative == Head(text) = "-"
             ds == NoLeadingZeros(IF Head(text) \in {"+", "-"} THEN Tail(text) ELSE text)
         IN  IF ds = <<>> \/ ~AllDigits(ds) \/ Len(ds) > 10 THEN None
             ELSE IF Len(ds) <= 9 THEN Some(IF negative THEN -Decimal(ds) ELSE Decimal(ds))
             ELSE LET q == Decimal(SubSeq(ds, 1, 9))
                      d == Digit[ds[10]]
                  IN  IF q > 214748364 \/ (q = 214748364 /\ d > (IF negative THEN 8 ELSE 7))
                      THEN None
                      ELSE Some(IF negative THEN -(q * 10) - d ELSE q * 10 + d)

\* u, held as two 16-bit halves, is the unsigned 32-bit number equal to the
\* signed v modulo 2^32: v itself for v >= 0, v + 2^32 for v < 0.
IsU32Of(u, v) ==
    /\ u.hi \in 0..(Half - 1)
    /\ u.lo \in 0..(Half - 1)
    /\ IF v >= 0 THEN u.hi < Half \div 2 /\ u.hi * Half + u.lo = v
       ELSE u.hi >= Half \div 2 /\ (u.hi - Half) * Half + u.lo = v

\* The signed 32-bit value that the last item of a line for a key gives;
\* None when the line has no such item or its value is no such number.
GivenInt(text, key) ==
    LET given == ValueTextsOf(text, key)
    IN  IF given = <<>> THEN None ELSE SignedValue(Last(given))

\* The texts of the Proxy Group section are translated without a failure.
GroupTextAccepted ==
    (lines # <<>> /\ lines[1] = Ok(HeaderOf("Proxy Group"))) => pc \notin {"err", "panic"}

====
